---- MODULE Spec2Model ----
(***************************************************************************)
(* A model of the SQL editor core: the placeholder codec                   *)
(* (VariableHandler), the grammar adapter (ParserService), the validation  *)
(* service (ValidatorService) and the completion engine                    *)
(* (AutocompleteEngine).  Texts are sequences of one-character strings,    *)
(* and every regular expression of the source is computed character by     *)
(* character as the JavaScript engine computes it.                         *)
(***************************************************************************)
EXTENDS Integers, Sequences, FiniteSets, TLC

VARIABLES
    lastIndex,          \* VariableHandler.VARIABLE_PATTERN.lastIndex (static, 0-based)
    embeddedVariables,  \* ParserService.embeddedVariables
    validators,         \* ValidatorService.validators
    validationRules,    \* ValidatorService.validationRules
    providers,          \* AutocompleteEngine.providers
    options,            \* AutocompleteEngine.options
    schema,             \* SchemaRegistry.schema
    call,               \* the last public call: its name, arguments and outcome
    walk,               \* one run of ParserService.traverseAST, step by step
    debounced,          \* one function made by debounce or debounceAsync
    hook                \* one component that uses useSQLEditor

vars == <<lastIndex, embeddedVariables, validators, validationRules,
          providers, options, schema, call, walk, debounced, hook>>

(***************************************************************************)
(* Characters and strings                                                  *)
(***************************************************************************)
UpperChars == <<"A","B","C","D","E","F","G","H","I","J","K","L","M",
                "N","O","P","Q","R","S","T","U","V","W","X","Y","Z">>

LowerChars == <<"a","b","c","d","e","f","g","h","i","j","k","l","m",
                "n","o","p","q","r","s","t","u","v","w","x","y","z">>

DigitChars == <<"0","1","2","3","4","5","6","7","8","9">>

Range(f) == { f[i] : i \in DOMAIN f }

\* the least element of a non-empty set of numbers
Min(S) == CHOOSE i \in S : \A j \in S : i <= j

\* the sequences over S of length at most n
RECURSIVE SeqsUpTo(_, _)
SeqsUpTo(S, n) ==
    IF n = 0 THEN {<<>>}
    ELSE SeqsUpTo(S, n - 1) \cup { Append(q, x) : q \in SeqsUpTo(S, n - 1), x \in S }

\* the function that maps each x of S to F(x), computed once
RECURSIVE Tabulate(_, _)
Tabulate(F(_), S) ==
    IF S = {} THEN <<>>
    ELSE LET x == CHOOSE y \in S : TRUE
         IN  (x :> F(x)) @@ Tabulate(F, S \ {x})

\* the position of c in the sequence cs that holds it
PositionIn(cs, c) == CHOOSE i \in DOMAIN cs : cs[i] = c

UpperOf == Tabulate(LAMBDA c : UpperChars[PositionIn(LowerChars, c)], Range(LowerChars))

LowerOf == Tabulate(LAMBDA c : LowerChars[PositionIn(UpperChars, c)], Range(UpperChars))

\* String.prototype.toUpperCase and toLowerCase on one character
ToUpper(c) == IF c \in DOMAIN UpperOf THEN UpperOf[c] ELSE c

ToLower(c) == IF c \in DOMAIN LowerOf THEN LowerOf[c] ELSE c

\* the character class \w
WordChars == Range(UpperChars) \cup Range(LowerChars) \cup Range(DigitChars) \cup {"_"}

IsWordChar(c) == c \in WordChars

\* the character class \s
SpaceChars == {" ", "\n", "\t"}

IsSpaceChar(c) == c \in SpaceChars

\* Number.prototype.toString for a non-negative integer (template literal `${n}`)
RECURSIVE IntToChars(_)
IntToChars(n) ==
    IF n < 10 THEN <<DigitChars[n + 1]>>
    ELSE IntToChars(n \div 10) \o <<DigitChars[(n % 10) + 1]>>

\* s has the literal lit at position i (1-based), compared exactly
HasLitAt(s, i, lit) ==
    /\ i >= 1
    /\ i + Len(lit) - 1 <= Len(s)
    /\ \A k \in 1..Len(lit) : s[i + k - 1] = lit[k]

\* s has the literal lit at position i under the regular expression flag i
HasLitAtI(s, i, lit) ==
    /\ i >= 1
    /\ i + Len(lit) - 1 <= Len(s)
    /\ \A k \in 1..Len(lit) : ToUpper(s[i + k - 1]) = ToUpper(lit[k])

\* String.prototype.indexOf(lit, from - 1) + 1: the first position >= from, or 0
IndexOfFrom(s, lit, from) ==
    LET hits == { i \in from..Len(s) : HasLitAt(s, i, lit) }
    IN  IF hits = {} THEN 0 ELSE Min(hits)

\* String.prototype.includes
Includes(s, lit) == IndexOfFrom(s, lit, 1) # 0

\* the end (exclusive) of the run of characters satisfying the class that starts at i
RECURSIVE WordRunEnd(_, _)
WordRunEnd(s, i) ==
    IF i <= Len(s) /\ IsWordChar(s[i]) THEN WordRunEnd(s, i + 1) ELSE i

RECURSIVE SpaceRunEnd(_, _)
SpaceRunEnd(s, i) ==
    IF i <= Len(s) /\ IsSpaceChar(s[i]) THEN SpaceRunEnd(s, i + 1) ELSE i

\* String.prototype.split('\n')
RECURSIVE SplitLines(_)
SplitLines(s) ==
    LET nl == IndexOfFrom(s, <<"\n">>, 1)
    IN  IF nl = 0 THEN <<s>>
        ELSE <<SubSeq(s, 1, nl - 1)>> \o SplitLines(SubSeq(s, nl + 1, Len(s)))

(***************************************************************************)
(* VariableHandler                                                         *)
(***************************************************************************)
PLACEHOLDER == <<"$","{","p","l","a","c","e","h","o","l","d","e","r","}">>

\* VARIABLE_PATTERN /\$\(([^)]+)\)/ tried at position i: the position after the
\* match, or 0 when the pattern does not match there
MatchVariableAt(s, i) ==
    IF /\ i + 3 <= Len(s)
       /\ s[i] = "$"
       /\ s[i + 1] = "("
       /\ s[i + 2] # ")"
    THEN LET close == IndexOfFrom(s, <<")">>, i + 3)
         IN  IF close = 0 THEN 0 ELSE close + 1
    ELSE 0

\* the leftmost position >= from where VARIABLE_PATTERN matches, or 0
FindVariable(s, from) ==
    LET hits == { i \in from..Len(s) : MatchVariableAt(s, i) # 0 }
    IN  IF hits = {} THEN 0 ELSE Min(hits)

\* RegExp.prototype.exec of the global VARIABLE_PATTERN: it starts at lastIndex
\* and leaves lastIndex after the match, or at 0 when it fails
VariablePatternExec(s, li) ==
    LET at == IF li > Len(s) THEN 0 ELSE FindVariable(s, li + 1)
    IN  IF at = 0
        THEN [found |-> FALSE, start |-> 0, end |-> 0, lastIndex |-> 0]
        ELSE [found |-> TRUE, start |-> at, end |-> MatchVariableAt(s, at),
              lastIndex |-> MatchVariableAt(s, at) - 1]

\* hasVariables: VARIABLE_PATTERN.test(sql)
hasVariables(sql, li) ==
    LET r == VariablePatternExec(sql, li)
    IN  [result |-> r.found, lastIndex |-> r.lastIndex]

\* extractVariables: lastIndex = 0, then exec until it fails
RECURSIVE ExtractFrom(_, _)
ExtractFrom(sql, li) ==
    LET r == VariablePatternExec(sql, li)
    IN  IF ~r.found THEN <<>>
        ELSE <<SubSeq(sql, r.start + 2, r.end - 2)>> \o ExtractFrom(sql, r.lastIndex)

extractVariables(sql) == [result |-> ExtractFrom(sql, 0), lastIndex |-> 0]

\* the placeholder of the n-th variable: `${PLACEHOLDER}_${n}`
PlaceholderOf(n) == PLACEHOLDER \o <<"_">> \o IntToChars(n)

\* sql.replace(VARIABLE_PATTERN, callback) from position pos on, the callback
\* numbering the matches from counter
RECURSIVE EscapeFrom(_, _, _)
EscapeFrom(sql, pos, counter) ==
    LET at == FindVariable(sql, pos)
    IN  IF at = 0
        THEN [text |-> SubSeq(sql, pos, Len(sql)), map |-> <<>>]
        ELSE LET end  == MatchVariableAt(sql, at)
                 rest == EscapeFrom(sql, end, counter + 1)
             IN  [text |-> SubSeq(sql, pos, at - 1) \o PlaceholderOf(counter) \o rest.text,
                  map  |-> <<[placeholder |-> PlaceholderOf(counter),
                              original    |-> SubSeq(sql, at, end - 1)]>> \o rest.map]

\* escapeVariables: the variable map is an object, kept here in insertion order
escapeVariables(sql) ==
    LET r == EscapeFrom(sql, 1, 0)
    IN  [escapedSql |-> r.text, variableMap |-> r.map]

\* GetSubstitution: the replacement string of String.prototype.replace, with
\* no capture groups in the pattern: $$, $&, $` and $' are expanded
RECURSIVE GetSubstitution(_, _, _, _, _)
GetSubstitution(repl, k, matched, before, after) ==
    IF k > Len(repl) THEN <<>>
    ELSE IF repl[k] = "$" /\ k < Len(repl) /\ repl[k + 1] = "$"
         THEN <<"$">> \o GetSubstitution(repl, k + 2, matched, before, after)
    ELSE IF repl[k] = "$" /\ k < Len(repl) /\ repl[k + 1] = "&"
         THEN matched \o GetSubstitution(repl, k + 2, matched, before, after)
    ELSE IF repl[k] = "$" /\ k < Len(repl) /\ repl[k + 1] = "`"
         THEN before \o GetSubstitution(repl, k + 2, matched, before, after)
    ELSE IF repl[k] = "$" /\ k < Len(repl) /\ repl[k + 1] = "'"
         THEN after \o GetSubstitution(repl, k + 2, matched, before, after)
    ELSE <<repl[k]>> \o GetSubstitution(repl, k + 1, matched, before, after)

\* text.replace(new RegExp(escaped(lit), 'g'), repl) from position pos on
RECURSIVE ReplaceAllFrom(_, _, _, _)
ReplaceAllFrom(s, pos, lit, repl) ==
    LET at == IndexOfFrom(s, lit, pos)
    IN  IF at = 0 THEN SubSeq(s, pos, Len(s))
        ELSE SubSeq(s, pos, at - 1)
             \o GetSubstitution(repl, 1, lit, SubSeq(s, 1, at - 1),
                                SubSeq(s, at + Len(lit), Len(s)))
             \o ReplaceAllFrom(s, at + Len(lit), lit, repl)

\* revertEscapedSql: one global replace per entry of the map, in insertion order
RECURSIVE revertEscapedSql(_, _)
revertEscapedSql(escapedSql, variableMap) ==
    IF variableMap = <<>> THEN escapedSql
    ELSE revertEscapedSql(
             ReplaceAllFrom(escapedSql, 1, Head(variableMap).placeholder,
                            Head(variableMap).original),
             Tail(variableMap))

\* the value of an optional number field under `err.field || dflt`
FieldOr(err, f, dflt) ==
    IF f \in DOMAIN err /\ err[f] # 0 THEN err[f] ELSE dflt

\* every occurrence of a placeholder of the map in the escaped line, found by
\* indexOf with searchPos = pos + 1: pairs <<entry, 0-based start>>
VariablePositions(escapedLine, variableMap) ==
    { p \in (DOMAIN variableMap) \X (0..Len(escapedLine)) :
          HasLitAt(escapedLine, p[2] + 1, variableMap[p[1]].placeholder) }

RECURSIVE SumLengthDiff(_, _, _)
SumLengthDiff(positions, column, variableMap) ==
    IF positions = {} THEN 0
    ELSE LET p == CHOOSE q \in positions : TRUE
             lengthDiff == Len(variableMap[p[1]].original)
                           - Len(variableMap[p[1]].placeholder)
         IN  (IF column > p[2] THEN lengthDiff ELSE 0)
             + SumLengthDiff(positions \ {p}, column, variableMap)

\* adjustColumnPosition: the column plus the length difference of every
\* placeholder occurrence that starts before it on the escaped line
adjustColumnPosition(column, escapedLine, variableMap) ==
    column + SumLengthDiff(VariablePositions(escapedLine, variableMap), column, variableMap)

\* lines[line] || ''
LineOr(lines, line) ==
    IF line + 1 \in DOMAIN lines THEN lines[line + 1] ELSE <<>>

\* revertErrorPositions on one error: only an error that carries startColumn
\* or endColumn is touched
RevertOneError(error, escapedSql, variableMap) ==
    IF "startColumn" \in DOMAIN error \/ "endColumn" \in DOMAIN error
    THEN LET line        == FieldOr(error, "startLine", 0)
             escapedLine == LineOr(SplitLines(escapedSql), line)
         IN  [f \in DOMAIN error |->
                 IF f \in {"startColumn", "endColumn"}
                 THEN adjustColumnPosition(error[f], escapedLine, variableMap)
                 ELSE error[f]]
    ELSE error

revertErrorPositions(errors, originalSql, escapedSql, variableMap) ==
    [i \in DOMAIN errors |-> RevertOneError(errors[i], escapedSql, variableMap)]

(***************************************************************************)
(* ParserService                                                           *)
(***************************************************************************)
\* the value undefined of an optional text field (alias, database): no text
\* field of a table reference is ever the empty string, `x || undefined`
\* having turned it into undefined
Undefined == <<>>

\* The engine's AST is an object graph: ast.root names the root node (0 for a
\* null AST) and ast.nodes[id] gives, for each node, its scalar properties
\* and, in Object.keys order, its object-valued properties <<key, node id>>.
\* a walk that skips no key
SkipNoKeys == {}

SkipKeys == {"parent", "parentCtx", "invokingState", "_parent"}

\* traverseAST: the nodes in the order the callback sees them, with the
\* visited set threaded through the walk
RECURSIVE TraverseNode(_, _, _)
RECURSIVE TraverseProps(_, _, _, _)
TraverseNode(ast, id, visited) ==
    IF id = 0 \/ id \in visited THEN [order |-> <<>>, visited |-> visited]
    ELSE LET below == TraverseProps(ast, ast.nodes[id].props, 1, visited \cup {id})
         IN  [order |-> <<id>> \o below.order, visited |-> below.visited]

TraverseProps(ast, props, k, visited) ==
    IF k > Len(props) THEN [order |-> <<>>, visited |-> visited]
    ELSE IF props[k][1] \in SkipKeys
         THEN TraverseProps(ast, props, k + 1, visited)
    ELSE LET here == TraverseNode(ast, props[k][2], visited)
             rest == TraverseProps(ast, props, k + 1, here.visited)
         IN  [order |-> here.order \o rest.order, visited |-> rest.visited]

traverseAST(ast) == TraverseNode(ast, ast.root, {}).order

\* the callback of extractTableRefs on one node: the references it pushes
TableRefsOfNode(node) ==
    (IF node.type = "table" /\ node.table # Undefined
     THEN <<[name |-> node.table, database |-> node.db, alias |-> node.as,
             isCTE |-> FALSE]>>
     ELSE <<>>)
    \o
    (IF node.type = "cte" /\ node.name # Undefined
     THEN <<[name |-> node.name, database |-> Undefined, alias |-> node.name,
             isCTE |-> TRUE]>>
     ELSE <<>>)

RECURSIVE TableRefsOfNodes(_, _)
TableRefsOfNodes(ast, order) ==
    IF order = <<>> THEN <<>>
    ELSE TableRefsOfNode(ast.nodes[Head(order)]) \o TableRefsOfNodes(ast, Tail(order))

\* extractTableRefs: nothing for a null AST, else the references of the walk
extractTableRefs(ast) ==
    IF ast.root = 0 THEN <<>> ELSE TableRefsOfNodes(ast, traverseAST(ast))

\* the tail \s+(\w+)(?:\s+AS\s+(\w+)|\s+(\w+))? of the FROM and JOIN patterns,
\* tried at position i (right after the keyword)
TableTail(s, i) ==
    LET sp == SpaceRunEnd(s, i)
        ne == WordRunEnd(s, sp)
        \* first alternative: \s+AS\s+(\w+)
        a1 == SpaceRunEnd(s, ne)
        a2 == SpaceRunEnd(s, a1 + 2)
        a3 == WordRunEnd(s, a2)
        \* second alternative: \s+(\w+)
        b2 == WordRunEnd(s, a1)
    IN  IF sp = i \/ ne = sp THEN [ok |-> FALSE]
        ELSE IF a1 > ne /\ HasLitAtI(s, a1, <<"A","S">>) /\ a2 > a1 + 2 /\ a3 > a2
             THEN [ok |-> TRUE, name |-> SubSeq(s, sp, ne - 1),
                   alias |-> SubSeq(s, a2, a3 - 1), end |-> a3]
        ELSE IF a1 > ne /\ b2 > a1
             THEN [ok |-> TRUE, name |-> SubSeq(s, sp, ne - 1),
                   alias |-> SubSeq(s, a1, b2 - 1), end |-> b2]
        ELSE [ok |-> TRUE, name |-> SubSeq(s, sp, ne - 1),
              alias |-> Undefined, end |-> ne]

\* fromPattern /FROM\s+(\w+)(?:\s+AS\s+(\w+)|\s+(\w+))?/gis tried at position i
FromMatchAt(s, i) ==
    IF HasLitAtI(s, i, <<"F","R","O","M">>) THEN TableTail(s, i + 4) ELSE [ok |-> FALSE]

JoinPrefixes == << <<"I","N","N","E","R">>, <<"L","E","F","T">>, <<"R","I","G","H","T">>,
                   <<"F","U","L","L">>, <<"C","R","O","S","S">> >>

\* JOIN\s+(\w+)(...)? at position i
JoinKeywordAt(s, i) ==
    IF HasLitAtI(s, i, <<"J","O","I","N">>) THEN TableTail(s, i + 4) ELSE [ok |-> FALSE]

\* joinPattern tried at position i: the alternatives INNER\s+ | LEFT\s+ | ...
\* in order, then the empty prefix
\* the k-th prefix and \s+ at position i: the position after them, or 0
JoinPrefixEnd(s, i, k) ==
    LET afterWord == i + Len(JoinPrefixes[k])
    IN  IF HasLitAtI(s, i, JoinPrefixes[k]) /\ SpaceRunEnd(s, afterWord) > afterWord
        THEN SpaceRunEnd(s, afterWord)
        ELSE 0

\* the prefixes at position i after which JOIN\s+(\w+) matches
JoinPrefixHits(s, i) ==
    { k \in DOMAIN JoinPrefixes :
        JoinPrefixEnd(s, i, k) # 0 /\ JoinKeywordAt(s, JoinPrefixEnd(s, i, k)).ok }

\* the first alternative that leads to a match wins; the empty prefix is last
JoinMatchPick(s, i, ks) ==
    JoinKeywordAt(s, IF ks = {} THEN i ELSE JoinPrefixEnd(s, i, Min(ks)))

JoinMatchAt(s, i) == JoinMatchPick(s, i, JoinPrefixHits(s, i))

\* a table reference as the pattern scan builds it
RegexRef(m) == [name |-> m.name, database |-> Undefined, alias |-> m.alias, isCTE |-> FALSE]

HasRef(tables, name, alias) ==
    \E k \in DOMAIN tables : tables[k].name = name /\ tables[k].alias = alias

\* RegExp.prototype.exec of a global pattern: the leftmost match at or after
\* pos, given the positions where the pattern matches
FirstOf(hits, pos) ==
    IF \E i \in hits : i >= pos THEN Min({ i \in hits : i >= pos }) ELSE 0

FromHits(s) == { i \in DOMAIN s : FromMatchAt(s, i).ok }

JoinHits(s) == { i \in DOMAIN s : JoinMatchAt(s, i).ok }

\* the loop `while ((match = fromPattern.exec(sql)) !== null)`: every match
\* is pushed, and the next search starts where the match ended
RECURSIVE ScanFrom(_, _, _)
RECURSIVE ScanFromAt(_, _, _)
ScanFromAt(s, hits, m) == <<RegexRef(m)>> \o ScanFrom(s, hits, m.end)

ScanFrom(s, hits, pos) ==
    IF FirstOf(hits, pos) = 0 THEN <<>>
    ELSE ScanFromAt(s, hits, FromMatchAt(s, FirstOf(hits, pos)))

\* the loop over joinPattern, which skips a pair (name, alias) already found
RECURSIVE ScanJoin(_, _, _, _)
RECURSIVE ScanJoinAt(_, _, _, _)
ScanJoinAt(s, hits, m, tables) ==
    ScanJoin(s, hits, m.end,
             IF HasRef(tables, m.name, m.alias) THEN tables
             ELSE Append(tables, RegexRef(m)))

ScanJoin(s, hits, pos, tables) ==
    IF FirstOf(hits, pos) = 0 THEN tables
    ELSE ScanJoinAt(s, hits, JoinMatchAt(s, FirstOf(hits, pos)), tables)

extractTableRefsFromRegex(sql) ==
    ScanJoin(sql, JoinHits(sql), 1, ScanFrom(sql, FromHits(sql), 1))

\* the merge loop of parse: a scanned reference is pushed unless the list
\* already holds its (name, alias)
RECURSIVE MergeRefs(_, _)
MergeRefs(tableRefs, regexTables) ==
    IF regexTables = <<>> THEN tableRefs
    ELSE MergeRefs(IF HasRef(tableRefs, Head(regexTables).name, Head(regexTables).alias)
                   THEN tableRefs
                   ELSE Append(tableRefs, Head(regexTables)),
                   Tail(regexTables))

\* extractAliases: alias and name both map to the reference, last write wins
RECURSIVE AliasesFrom(_, _, _)
AliasesFrom(tableRefs, k, aliases) ==
    IF k > Len(tableRefs) THEN aliases
    ELSE LET ref  == tableRefs[k]
             keys == (IF ref.alias # Undefined THEN {ref.alias} ELSE {}) \cup {ref.name}
         IN  AliasesFrom(tableRefs, k + 1,
                 [key \in (DOMAIN aliases) \cup keys |->
                     IF key \in keys THEN ref ELSE aliases[key]])

extractAliases(tableRefs) == AliasesFrom(tableRefs, 1, <<>>)

(***************************************************************************)
(* Inputs: texts, engine answers                                           *)
(***************************************************************************)
Sp == <<" ">>
Nl == <<"\n">>

kwSELECT == <<"S","E","L","E","C","T">>
kwFROM   == <<"F","R","O","M">>
kwJOIN   == <<"J","O","I","N">>
kwAS     == <<"A","S">>
kwON     == <<"O","N">>
kwWHERE  == <<"W","H","E","R","E">>
tUsers   == <<"u","s","e","r","s">>
tOrders  == <<"o","r","d","e","r","s">>
aU       == <<"u">>
aO       == <<"o">>
colStar  == <<"*">>
colValidFrom == <<"v","a","l","i","d","_","f","r","o","m">>
onCond   == <<"u",".","i","d"," ","="," ","o",".","u","i","d">>
varT     == <<"$","(","t",")">>
varId    == <<"$","(","i","d",")">>

\* SELECT <cols> FROM users [AS] u <sep> [INNER|LEFT|RIGHT] JOIN orders [AS] o ON ...
JoinKinds == { <<>>, <<"I","N","N","E","R"," ">>, <<"L","E","F","T"," ">>, <<"R","I","G","H","T"," ">> }

JoinStatement(cols, as, sep, kind) ==
    kwSELECT \o Sp \o cols \o Sp \o kwFROM \o Sp \o tUsers \o Sp
    \o (IF as THEN kwAS \o Sp ELSE <<>>) \o aU \o sep
    \o kind \o kwJOIN \o Sp \o tOrders \o Sp
    \o (IF as THEN kwAS \o Sp ELSE <<>>) \o aO \o Sp \o kwON \o Sp \o onCond

JoinStatements ==
    { JoinStatement(cols, as, sep, kind) :
        cols \in {colStar, colValidFrom}, as \in BOOLEAN, sep \in {Sp, Nl},
        kind \in JoinKinds }

\* SELECT * FROM users
SimpleSelect == kwSELECT \o Sp \o colStar \o Sp \o kwFROM \o Sp \o tUsers

\* SELECT * FROM users u WHERE id IN (SELECT id FROM users u)
NestedSelect ==
    kwSELECT \o Sp \o colStar \o Sp \o kwFROM \o Sp \o tUsers \o Sp \o aU \o Sp
    \o kwWHERE \o Sp \o <<"i","d"," ","I","N"," ","(">> \o kwSELECT \o Sp \o <<"i","d">> \o Sp \o kwFROM \o Sp
    \o tUsers \o Sp \o aU \o <<")">>

\* SELECT * FROM $(t) WHERE
VariableSelect ==
    kwSELECT \o Sp \o colStar \o Sp \o kwFROM \o Sp \o varT \o Sp \o kwWHERE

\* SELECT * FROM $(t) WHERE id = $(id)
TwoVariableSelect == VariableSelect \o Sp \o <<"i","d"," ","="," ">> \o varId

\* SELECT *\nFROM $(t) WHERE
TwoLineVariableSelect ==
    kwSELECT \o Sp \o colStar \o Nl \o kwFROM \o Sp \o varT \o Sp \o kwWHERE

\* SELECT * FROM $(t WHERE: an unterminated variable
MalformedVariable ==
    kwSELECT \o Sp \o colStar \o Sp \o kwFROM \o Sp \o <<"$","(","t">> \o Sp \o kwWHERE

\* SELECT * FROM users LIMIT 1
LimitSelect == SimpleSelect \o Sp \o <<"L","I","M","I","T"," ","1">>

\* texts in which completions are asked for
\* SELECT u. FROM users u
DotSelect ==
    kwSELECT \o Sp \o aU \o <<".">> \o Sp \o kwFROM \o Sp \o tUsers \o Sp \o aU

\* SELECT * FROM us
PartialFrom == kwSELECT \o Sp \o colStar \o Sp \o kwFROM \o Sp \o <<"u","s">>

\* SELECT * FROM users WHERE, a space at its end
OpenWhere == SimpleSelect \o Sp \o kwWHERE \o Sp

\* SEL
PartialKeyword == <<"S","E","L">>

\* SELECT *\nFROM users u\nWHERE u.na
ThreeLines ==
    kwSELECT \o Sp \o colStar \o Nl \o kwFROM \o Sp \o tUsers \o Sp \o aU \o Nl
    \o kwWHERE \o Sp \o aU \o <<".","n","a">>

\* in
PartialIn == <<"i","n">>

\* SELECT * FROM users u WHERE u.use
PartialUse == SimpleSelect \o Sp \o aU \o Sp \o kwWHERE \o Sp \o aU \o <<".","u","s","e">>

CompletionTexts ==
    {DotSelect, PartialFrom, OpenWhere, PartialKeyword, ThreeLines, PartialIn, PartialUse}

VariableTexts == {varT, VariableSelect, TwoVariableSelect, TwoLineVariableSelect}

ParseTexts ==
    JoinStatements \cup VariableTexts \cup {<<>>, SimpleSelect, LimitSelect, NestedSelect, MalformedVariable}

\* texts given to the validation service
tNonexistent == <<"n","o","n","e","x","i","s","t","e","n","t">>

\* SELECT * FROM nonexistent
MissingSelect == kwSELECT \o Sp \o colStar \o Sp \o kwFROM \o Sp \o tNonexistent

\* select * from Users
LowerSelect == <<"s","e","l","e","c","t"," ","*"," ","f","r","o","m"," ","U","s","e","r","s">>

\* SELECT * FROM users WHERE id IN (SELECT id FROM nonexistent)
SubquerySelect ==
    SimpleSelect \o Sp \o kwWHERE \o Sp \o <<"i","d"," ","I","N"," ","(">> \o kwSELECT \o Sp
    \o <<"i","d">> \o Sp \o kwFROM \o Sp \o tNonexistent \o <<")">>

ValidatorTexts ==
    {SimpleSelect, LimitSelect, VariableSelect, MissingSelect, LowerSelect, SubquerySelect}

\* texts for the codec alone: every concatenation of at most MaxTokens tokens,
\* a text of eleven variables, and a text that spells a placeholder itself
MaxTokens == 3

CodecTokens == { varT, <<"$","(","$","$",")">>, <<"x">>, <<"$","(">>, <<")">> }

RECURSIVE Flatten(_)
Flatten(ts) == IF ts = <<>> THEN <<>> ELSE Head(ts) \o Flatten(Tail(ts))

RECURSIVE Repeat(_, _)
Repeat(s, n) == IF n = 0 THEN <<>> ELSE s \o Repeat(s, n - 1)

ElevenVariables == Repeat(varT, 11)

SpelledPlaceholder == PLACEHOLDER \o <<"_","0">> \o Sp \o varT

CodecTexts ==
    { Flatten(ts) : ts \in SeqsUpTo(CodecTokens, MaxTokens) }
    \cup {ElevenVariables, SpelledPlaceholder}

\* ASTs the engine may answer with
Node(type, table, as, props) ==
    [type |-> type, table |-> table, db |-> Undefined, as |-> as,
     name |-> Undefined, props |-> props]

NullAst == [root |-> 0, nodes |-> <<>>]

\* { type: 'program', statements: [ { type: 'select', columns: ['*'], from: 'users' } ] }
ProgramAst ==
    [root  |-> 1,
     nodes |-> << Node("program", Undefined, Undefined, << <<"statements", 2>> >>),
                  Node("array", Undefined, Undefined, << <<"0", 3>> >>),
                  Node("select", Undefined, Undefined, << <<"columns", 4>> >>),
                  Node("array", Undefined, Undefined, <<>>) >>]

\* a select whose from holds the table users aliased u, the table node
\* pointing back at the select through parent
TableAst ==
    [root  |-> 1,
     nodes |-> << Node("select", Undefined, Undefined, << <<"from", 2>> >>),
                  Node("array", Undefined, Undefined, << <<"0", 3>> >>),
                  Node("table", tUsers, aU, << <<"parent", 1>> >>) >>]

\* users u in the outer FROM and again in the FROM of a subquery
NestedAst ==
    [root  |-> 1,
     nodes |-> << Node("select", Undefined, Undefined, << <<"from", 2>>, <<"where", 4>> >>),
                  Node("array", Undefined, Undefined, << <<"0", 3>> >>),
                  Node("table", tUsers, aU, <<>>),
                  Node("select", Undefined, Undefined, << <<"from", 5>> >>),
                  Node("array", Undefined, Undefined, << <<"0", 6>> >>),
                  Node("table", tUsers, aU, <<>>) >>]

Asts == {NullAst, ProgramAst, TableAst, NestedAst}

\* errors the engine may report (1-based positions)
MaxErrors == 1

ErrColumns == {1, 32}

ErrFull(c) ==
    [message |-> "syntax error", startLine |-> 1, startColumn |-> c,
     endLine |-> 1, endColumn |-> c + 5]

ErrStartOnly == [message |-> "mismatched input", startLine |-> 2, startColumn |-> 6]

ErrNoLocation == [message |-> "no viable alternative"]

EngineErrors == { ErrFull(c) : c \in ErrColumns } \cup {ErrStartOnly, ErrNoLocation}

NoThrow == [isError |-> FALSE, message |-> ""]

\* the grammar engine either throws (an Error or another value) or answers
\* with an AST and a list of errors
EngineAnswers ==
    { [throws |-> TRUE, thrown |-> th, ast |-> NullAst, errors |-> <<>>] :
        th \in { [isError |-> TRUE, message |-> "engine failure"],
                 [isError |-> FALSE, message |-> ""] } }
    \cup
    { [throws |-> FALSE, thrown |-> NoThrow, ast |-> a, errors |-> es] :
        a \in Asts, es \in SeqsUpTo(EngineErrors, MaxErrors) }

(***************************************************************************)
(* ParserService.parse                                                     *)
(***************************************************************************)
\* extractTableRefsFromRegex(sql) and escapeVariables(sql) depend on the text
\* alone: they are tabulated for the texts of the model
RegexTables == Tabulate(extractTableRefsFromRegex, ParseTexts \cup CompletionTexts \cup ValidatorTexts)

Escaped == Tabulate(escapeVariables, ParseTexts \cup CompletionTexts \cup ValidatorTexts)

\* errors.map(...) of parse on one engine error: 1-based positions become
\* 0-based and go under location; an error with no startLine gets no location
MapEngineError(err) ==
    LET message == IF "message" \in DOMAIN err THEN err.message ELSE "Parse error"
    IN  IF "startLine" \in DOMAIN err
        THEN [message  |-> message,
              severity |-> "error",
              location |->
                [start |-> [line   |-> err.startLine - 1,
                            column |-> FieldOr(err, "startColumn", 1) - 1],
                 end   |-> [line   |-> FieldOr(err, "endLine", err.startLine) - 1,
                            column |-> FieldOr(err, "endColumn",
                                               FieldOr(err, "startColumn", 1)) - 1]]]
        ELSE [message |-> message, severity |-> "error"]

\* a catch block that passes the exception on to the caller
ParseCatchRethrows(thrown) ==
    [outcome |-> "threw",
     result  |->
        [success   |-> FALSE,
         hasAst    |-> FALSE,
         errors    |-> <<>>,
         tableRefs |-> <<>>,
         aliases   |-> <<>>]]

\* the catch block of parse: the exception ends there, and one error with a
\* message and a severity is returned
ParseCatch(thrown) ==
    [outcome |-> "returned",
     result  |->
        [success   |-> FALSE,
         hasAst    |-> FALSE,
         errors    |-> <<[message  |-> IF thrown.isError THEN thrown.message
                                       ELSE "Unknown parse error",
                          severity |-> "error"]>>,
         tableRefs |-> <<>>,
         aliases   |-> <<>>]]

\* a success flag that follows the presence of an AST, not the errors
ParseSuccessFromAst(errors) == TRUE

\* success: errors.length === 0
ParseSuccess(errors) == Len(errors) = 0

\* the result of the try block: the aliases are read off the merged references
ParseReturn(success, errors, tableRefs) ==
    [outcome |-> "returned",
     result  |->
        [success   |-> success,
         hasAst    |-> TRUE,
         errors    |-> errors,
         tableRefs |-> tableRefs,
         aliases   |-> extractAliases(tableRefs)]]

\* the errors of the try block: mapped, then reverted when a variable was
\* escaped
ParseErrors(mapped, sql, sqlToParse, variableMap, embedded) ==
    IF embedded /\ Len(variableMap) > 0
    THEN revertErrorPositions(mapped, sql, sqlToParse, variableMap)
    ELSE mapped

\* the try block of parse once the engine has answered
ParseTry(sql, sqlToParse, variableMap, embedded, engine) ==
    ParseReturn(ParseSuccess(engine.errors),
                ParseErrors([i \in DOMAIN engine.errors |-> MapEngineError(engine.errors[i])],
                            sql, sqlToParse, variableMap, embedded),
                MergeRefs(extractTableRefs(engine.ast), RegexTables[sql]))

\* parse once it is known what text goes to the engine
ParseEngine(sql, sqlToParse, variableMap, embedded, engine, lastIndexAfter, ended) ==
    [outcome     |-> ended.outcome,
     result      |-> ended.result,
     engineInput |-> sqlToParse,
     variableMap |-> variableMap,
     lastIndex   |-> lastIndexAfter]

ParseText(sql, sqlToParse, variableMap, embedded, engine, lastIndexAfter) ==
    ParseEngine(sql, sqlToParse, variableMap, embedded, engine, lastIndexAfter,
                IF engine.throws THEN ParseCatch(engine.thrown)
                ELSE ParseTry(sql, sqlToParse, variableMap, embedded, engine))

\* `this.embeddedVariables && this.variableHandler.hasVariables(sql)`, hv being
\* the answer of hasVariables: the text is escaped, or parsed as it is
ParseEscaping(sql, li, embedded, engine, hv, escaped) ==
    IF embedded /\ hv.result
    \* String.prototype.replace with a global pattern leaves lastIndex at 0
    THEN ParseText(sql, escaped.escapedSql, escaped.variableMap, embedded, engine, 0)
    ELSE ParseText(sql, sql, <<>>, embedded, engine,
                   IF embedded THEN hv.lastIndex ELSE li)

\* parse(sql), with the static lastIndex li it finds and the answer of the
\* grammar engine: the result, the text handed to the engine, and the
\* lastIndex it leaves
parse(sql, li, embedded, engine) ==
    ParseEscaping(sql, li, embedded, engine, hasVariables(sql, li), Escaped[sql])

\* validate(sql): `return result.success` on the result of parse(sql)
validate(result) == result.success

(***************************************************************************)
(* SchemaRegistry                                                          *)
(*                                                                         *)
(* A schema definition is kept in Object.entries order: schema.databases   *)
(* is the sequence of the databases [name, tables], tables the sequence    *)
(* of the tables [name, columns], columns the sequence of the columns      *)
(* [name, type].                                                           *)
(***************************************************************************)
\* the greatest element of a non-empty set of numbers
Max(S) == CHOOSE i \in S : \A j \in S : i >= j

\* String.prototype.toLowerCase and toUpperCase
ToLowerCase(s) == [i \in DOMAIN s |-> ToLower(s[i])]

ToUpperCase(s) == [i \in DOMAIN s |-> ToUpper(s[i])]

\* DEFAULT_SCHEMA_OPTIONS.caseSensitive, the option of a registry built
\* without arguments
SchemaCaseSensitive == FALSE

normalizeName(name) == IF SchemaCaseSensitive THEN name ELSE ToLowerCase(name)

\* the first entry of entries whose key is name, else the first whose
\* normalized key is the normalized name, else none
LookupEntry(entries, name) ==
    LET exact  == { i \in DOMAIN entries : entries[i].name = name }
        normal == { i \in DOMAIN entries :
                      normalizeName(entries[i].name) = normalizeName(name) }
    IN  IF exact # {} THEN [found |-> TRUE, def |-> entries[Min(exact)]]
        ELSE IF normal # {} THEN [found |-> TRUE, def |-> entries[Min(normal)]]
        ELSE [found |-> FALSE]

getDatabase(registry, database) == LookupEntry(registry.databases, database)

\* getTable inside the one database that getDatabase found
TableOfDatabase(db, tableName) ==
    IF db.found THEN LookupEntry(db.def.tables, tableName) ELSE [found |-> FALSE]

\* getTable(tableName, database): inside the named database, or in the first
\* database that has the table under its exact or its normalized name
getTable(registry, tableName, database) ==
    IF database # <<>>
    THEN TableOfDatabase(getDatabase(registry, database), tableName)
    ELSE LET hits == { d \in DOMAIN registry.databases :
                         LookupEntry(registry.databases[d].tables, tableName).found }
         IN  IF hits = {} THEN [found |-> FALSE]
             ELSE LookupEntry(registry.databases[Min(hits)].tables, tableName)

ColumnsOfTable(table) == IF table.found THEN table.def.columns ELSE <<>>

getColumns(registry, tableName, database) ==
    ColumnsOfTable(getTable(registry, tableName, database))

\* the tables of one database, each with its name and the database's name
TablesOfDatabase(dbName, db) ==
    IF db.found
    THEN [t \in DOMAIN db.def.tables |->
            [name |-> db.def.tables[t].name, database |-> dbName,
             columns |-> db.def.tables[t].columns]]
    ELSE <<>>

\* getAllTables(database): the tables of the named database, or of every
\* database in order
RECURSIVE TablesFrom(_, _)
TablesFrom(databases, d) ==
    IF d > Len(databases) THEN <<>>
    ELSE TablesOfDatabase(databases[d].name, [found |-> TRUE, def |-> databases[d]])
         \o TablesFrom(databases, d + 1)

getAllTables(registry, database) ==
    IF database # <<>>
    THEN TablesOfDatabase(database, getDatabase(registry, database))
    ELSE TablesFrom(registry.databases, 1)

\* matches(name, query), the query being normalized by the caller
matches(name, query) ==
    Includes(normalizeName(name), query) \/ HasLitAt(normalizeName(name), 1, query)

\* the database items of search
SearchDatabases(hits) ==
    [k \in DOMAIN hits |-> [type |-> "database", name |-> hits[k].name]]

\* the table items of search
SearchTables(hits) ==
    [k \in DOMAIN hits |->
        [type |-> "table", name |-> hits[k].name, database |-> hits[k].database]]

\* the column items of one table
SearchColumnsOf(table, hits) ==
    [k \in DOMAIN hits |->
        [type |-> "column", name |-> hits[k].name, table |-> table.name,
         database |-> table.database]]

\* the column items of the tables from the k-th on
RECURSIVE SearchColumns(_, _, _, _)
SearchColumns(registry, tables, k, query) ==
    IF k > Len(tables) THEN <<>>
    ELSE SearchColumnsOf(tables[k],
                         SelectSeq(getColumns(registry, tables[k].name, tables[k].database),
                                   LAMBDA c : matches(c.name, query)))
         \o SearchColumns(registry, tables, k + 1, query)

\* `if (options?.limit) return results.slice(0, options.limit)`
SearchLimit(results, limit) ==
    IF limit = 0 THEN results
    ELSE IF limit < 0 THEN SubSeq(results, 1, Max({0, Len(results) + limit}))
    ELSE SubSeq(results, 1, Min({limit, Len(results)}))

\* search once the query is normalized and the tables are listed; type is
\* "" when options.type is not given
SearchIn(registry, query, type, tables, limit) ==
    SearchLimit(
        (IF type \in {"", "database"}
         THEN SearchDatabases(SelectSeq(registry.databases,
                                        LAMBDA d : matches(d.name, query)))
         ELSE <<>>)
        \o (IF type \in {"", "table"}
            THEN SearchTables(SelectSeq(tables, LAMBDA t : matches(t.name, query)))
            ELSE <<>>)
        \o (IF type \in {"", "column"}
            THEN SearchColumns(registry, tables, 1, query)
            ELSE <<>>),
        limit)

\* search(query, options): the database is <<>> and the limit is 0 when the
\* options do not give them
search(registry, query, searchOptions) ==
    SearchIn(registry, normalizeName(query), searchOptions.type,
             getAllTables(registry, searchOptions.database), searchOptions.limit)

(***************************************************************************)
(* ValidatorService                                                        *)
(***************************************************************************)
\* BaseValidationRule.createError with no startLine: no location is set
createError(message, type) ==
    [message |-> message, severity |-> "error", type |-> type]

\* PerformanceValidationRule.validate
PerformanceValidate(sql) ==
    LET hasLimit == Includes(sql, <<"L","I","M","I","T">>)
    IN  (IF Includes(sql, kwSELECT \o Sp \o colStar) /\ ~hasLimit
         THEN <<createError("Consider using LIMIT with SELECT * to avoid performance issues",
                            "custom")>>
         ELSE <<>>)
        \o
        (IF Includes(sql, kwFROM) /\ ~Includes(sql, kwWHERE) /\ ~hasLimit
         THEN <<createError("Consider adding WHERE clause or LIMIT to avoid scanning entire table",
                            "custom")>>
         ELSE <<>>)

\* NamingConventionRule.validate: /[a-z]+(_[a-z]+)*/ matches as soon as the
\* text holds one lower-case letter
NamingValidate(sql) ==
    IF \E i \in DOMAIN sql : sql[i] \in Range(LowerChars)
    THEN <<>>
    ELSE <<createError("Table and column names should follow snake_case convention",
                       "custom")>>

\* tablePattern /FROM\s+(\w+)/gi tried at position i
TablePatternAt(s, i) ==
    LET sp == SpaceRunEnd(s, i + 4)
        ne == WordRunEnd(s, sp)
    IN  IF HasLitAtI(s, i, <<"F","R","O","M">>) /\ sp > i + 4 /\ ne > sp
        THEN [ok |-> TRUE, name |-> SubSeq(s, sp, ne - 1), end |-> ne]
        ELSE [ok |-> FALSE]

TablePatternHits(s) == { i \in DOMAIN s : TablePatternAt(s, i).ok }

\* createError(`Table '${tableName}' does not exist in schema`, ..., 'semantic'):
\* the name put into the message is kept in the field table
SchemaError(tableName) ==
    [table |-> tableName] @@ createError("Table does not exist in schema", "semantic")

\* the loop `while ((match = tablePattern.exec(sql)) !== null)`: a name that
\* schema.getTable does not find is reported, and the next search starts
\* where the match ended
RECURSIVE SchemaScan(_, _, _, _)
RECURSIVE SchemaScanAt(_, _, _, _)
SchemaScanAt(s, hits, m, registry) ==
    (IF getTable(registry, m.name, <<>>).found THEN <<>> ELSE <<SchemaError(m.name)>>)
    \o SchemaScan(s, hits, m.end, registry)

SchemaScan(s, hits, pos, registry) ==
    IF FirstOf(hits, pos) = 0 THEN <<>>
    ELSE SchemaScanAt(s, hits, TablePatternAt(s, FirstOf(hits, pos)), registry)

\* SchemaValidationRule.validate
SchemaValidate(sql, registry) == SchemaScan(sql, TablePatternHits(sql), 1, registry)

\* ruleConfig.rule.validate(sql, errors, schema): a rule of the library, or a
\* rule of the caller that throws or returns the errors it was built with
RuleValidate(rule, sql, registry) ==
    CASE rule.kind = "performance" -> [throws |-> FALSE, errors |-> PerformanceValidate(sql)]
      [] rule.kind = "naming"      -> [throws |-> FALSE, errors |-> NamingValidate(sql)]
      [] rule.kind = "schema"      -> [throws |-> FALSE, errors |-> SchemaValidate(sql, registry)]
      [] OTHER                     -> [throws |-> rule.throws, errors |-> rule.errors]

\* !ruleConfig.enabled: a configuration with no enabled field is skipped
RuleEnabled(ruleConfig) == "enabled" \in DOMAIN ruleConfig /\ ruleConfig.enabled

\* if (!errors[i].type) errors[i].type = 'custom'
SetRuleType(error) ==
    IF "type" \in DOMAIN error /\ error.type # ""
    THEN error
    ELSE [f \in DOMAIN error \cup {"type"} |-> IF f = "type" THEN "custom" ELSE error[f]]

\* parseResult.errors.map(e => ({ ...e, type: 'syntax' }))
TagSyntax(error) ==
    [f \in DOMAIN error \cup {"type"} |-> IF f = "type" THEN "syntax" ELSE error[f]]

\* the loop over this.validators: a validator that throws ends the loop, and
\* the exception leaves it
RECURSIVE RunValidators(_, _, _)
RunValidators(vs, k, errors) ==
    IF k > Len(vs) THEN [threw |-> FALSE, thrown |-> NoThrow, errors |-> errors]
    ELSE IF vs[k].throws THEN [threw |-> TRUE, thrown |-> vs[k].thrown, errors |-> errors]
    ELSE RunValidators(vs, k + 1, errors \o vs[k].errors)

\* the loop over this.validationRules: a rule that is not enabled is skipped,
\* and the exception of a rule is caught inside the loop
RECURSIVE RunRules(_, _, _, _, _)
RunRules(rules, k, sql, registry, errors) ==
    IF k > Len(rules) THEN errors
    ELSE IF ~RuleEnabled(rules[k]) THEN RunRules(rules, k + 1, sql, registry, errors)
    ELSE LET r == RuleValidate(rules[k].rule, sql, registry)
         IN  IF r.throws THEN RunRules(rules, k + 1, sql, registry, errors)
             ELSE RunRules(rules, k + 1, sql, registry,
                           errors \o [i \in DOMAIN r.errors |-> SetRuleType(r.errors[i])])

\* the outer catch of ValidatorService.validate: one syntax error is all that
\* is returned
ValidatorCatch(thrown) ==
    [valid  |-> FALSE,
     errors |-> <<[message  |-> IF thrown.isError THEN thrown.message
                                ELSE "Unknown validation error",
                   severity |-> "error",
                   type     |-> "syntax"]>>]

\* ValidatorService.validate(sql, schema) on the result of this.parser.parse(sql)
\* `return { valid: errors.length === 0, errors }`
ValidatorReturn(errors) == [valid |-> Len(errors) = 0, errors |-> errors]

\* validate once the validators have run: their exception ends in the outer
\* catch, else the rules run
ValidatorAfterValidators(sql, registry, rules, ran) ==
    IF ran.threw THEN ValidatorCatch(ran.thrown)
    ELSE ValidatorReturn(RunRules(rules, 1, sql, registry, ran.errors))

validatorValidate(sql, registry, parseResult, vs, rules) ==
    ValidatorAfterValidators(sql, registry, rules,
        RunValidators(vs, 1,
            [i \in DOMAIN parseResult.errors |-> TagSyntax(parseResult.errors[i])]))

(***************************************************************************)
(* The context detector                                                    *)
(***************************************************************************)
\* String.prototype.substring(a, b), 0-based: both bounds are clamped to the
\* text and swapped when a > b
Clamp(n, len) == IF n < 0 THEN 0 ELSE IF n > len THEN len ELSE n

Substring(s, a, b) ==
    IF Clamp(a, Len(s)) <= Clamp(b, Len(s))
    THEN SubSeq(s, Clamp(a, Len(s)) + 1, Clamp(b, Len(s)))
    ELSE SubSeq(s, Clamp(b, Len(s)) + 1, Clamp(a, Len(s)))

\* the loop of positionToOffset: the lengths, each plus one, of the lines
\* i .. line - 1 that the text has
RECURSIVE LinesOffset(_, _, _)
LinesOffset(lines, i, line) ==
    IF i < line /\ i < Len(lines)
    THEN Len(lines[i + 1]) + 1 + LinesOffset(lines, i + 1, line)
    ELSE 0

positionToOffset(text, position) ==
    LinesOffset(SplitLines(text), 0, position.line) + position.column

\* the start of the longest run of word characters that ends at position e;
\* e + 1 when s[e] is no word character
WordRunStart(s, e) == Min({ i \in 1..(e + 1) : \A k \in i..e : IsWordChar(s[k]) })

\* s matches /^\s*[\w]*$/ from position j on
OnlySpacesThenWord(s, j) ==
    \E m \in j..(Len(s) + 1) :
        /\ \A k \in j..(m - 1) : IsSpaceChar(s[k])
        /\ \A k \in m..Len(s) : IsWordChar(s[k])

\* a dot match that takes no white space between the dot and the word
DotMatchesNoSpace(s) ==
    { d \in DOMAIN s : /\ s[d] = "."
                       /\ d > 1
                       /\ IsWordChar(s[d - 1])
                       /\ \A k \in (d + 1)..Len(s) : IsWordChar(s[k]) }

\* the positions of the dot in a match of /([\w]+)\.\s*[\w]*$/: none, or the
\* last dot of s
DotMatches(s) ==
    { d \in DOMAIN s : /\ s[d] = "."
                       /\ d > 1
                       /\ IsWordChar(s[d - 1])
                       /\ OnlySpacesThenWord(s, d + 1) }

\* String.prototype.trimEnd
TrimEnd(s) == SubSeq(s, 1, Max({0} \cup { i \in DOMAIN s : ~IsSpaceChar(s[i]) }))

\* the trailing run of word characters, the match of /[\w]*$/
TrailingWord(s) == SubSeq(s, WordRunStart(s, Len(s)), Len(s))

\* analyzeTokens once the dot match and the trimmed text are known:
\* previousToken and dotPrefix are left out when they are undefined
TokensOf(textBefore, dots, trimmed) ==
    [currentToken |-> TrailingWord(textBefore), afterDot |-> dots # {}]
    @@ (IF dots = {} /\ TrailingWord(trimmed) # <<>>
        THEN [previousToken |-> TrailingWord(trimmed)] ELSE <<>>)
    @@ (IF dots # {}
        THEN [dotPrefix |-> SubSeq(textBefore, WordRunStart(textBefore, Min(dots) - 1),
                                   Min(dots) - 1)]
        ELSE <<>>)

analyzeTokens(textBefore) ==
    TokensOf(textBefore, DotMatches(textBefore), TrimEnd(textBefore))

\* a test for the clause with no word boundary on either side
containsClauseAnywhere(text, clause) == Includes(text, clause)

\* containsClause: new RegExp(`\\b${clause}\\b`, 'i').test(text); a clause
\* starts and ends with a word character, so \b asks for no word character
\* before it and none after it
containsClause(text, clause) ==
    \E i \in DOMAIN text :
        /\ HasLitAtI(text, i, clause)
        /\ i = 1 \/ ~IsWordChar(text[i - 1])
        /\ i + Len(clause) > Len(text) \/ ~IsWordChar(text[i + Len(clause)])

\* String.prototype.lastIndexOf, 0-based, -1 when lit does not occur
LastIndexOf(s, lit) ==
    Max({0} \cup { i \in DOMAIN s : HasLitAt(s, i, lit) }) - 1

getParenthesisDepth(text) ==
    Max({0, Cardinality({ i \in DOMAIN text : text[i] = "(" })
            - Cardinality({ i \in DOMAIN text : text[i] = ")" })})

clHAVING  == <<"H","A","V","I","N","G">>
clORDERBY == <<"O","R","D","E","R"," ","B","Y">>
clGROUPBY == <<"G","R","O","U","P"," ","B","Y">>
clWHERE   == <<"W","H","E","R","E">>
clJOIN    == <<"J","O","I","N">>
clINNERJOIN == <<"I","N","N","E","R"," ","J","O","I","N">>
clLEFTJOIN  == <<"L","E","F","T"," ","J","O","I","N">>
clRIGHTJOIN == <<"R","I","G","H","T"," ","J","O","I","N">>
clFROM    == <<"F","R","O","M">>
clSELECT  == <<"S","E","L","E","C","T">>
clON      == <<"O","N">>

\* determineContextType on the upper-cased text
ContextTypeOf(upperText, textBefore) ==
    IF containsClause(upperText, clHAVING) THEN "having_clause"
    ELSE IF containsClause(upperText, clORDERBY) THEN "order_by"
    ELSE IF containsClause(upperText, clGROUPBY) THEN "group_by"
    ELSE IF containsClause(upperText, clWHERE) THEN "where_clause"
    ELSE IF \/ containsClause(upperText, clJOIN)
            \/ containsClause(upperText, clINNERJOIN)
            \/ containsClause(upperText, clLEFTJOIN)
            \/ containsClause(upperText, clRIGHTJOIN)
         \* afterJoin = upperText.substring(upperText.lastIndexOf('JOIN') + 4)
         THEN IF Includes(Substring(upperText, LastIndexOf(upperText, clJOIN) + 4,
                                    Len(upperText)), clON)
              THEN "where_clause"
              ELSE "join_clause"
    ELSE IF containsClause(upperText, clFROM) THEN "from_clause"
    ELSE IF containsClause(upperText, clSELECT) THEN "select_list"
    ELSE IF getParenthesisDepth(textBefore) > 0 THEN "function"
    ELSE "unknown"

determineContextType(textBefore) == ContextTypeOf(ToUpperCase(textBefore), textBefore)

\* detectContext once the text before the cursor is known
ContextBefore(textBefore, position, tableRefs) ==
    [type |-> determineContextType(textBefore), position |-> position,
     availableTables |-> tableRefs]
    @@ analyzeTokens(textBefore)

\* detectContext(sql, position, tableRefs): reading position.line of an
\* undefined position is a TypeError
detectContext(sql, position, tableRefs) ==
    IF "line" \notin DOMAIN position
    THEN [threw |-> TRUE]
    ELSE [threw |-> FALSE,
          context |-> ContextBefore(Substring(sql, 0, positionToOffset(sql, position)),
                                    position, tableRefs)]

\* a lookup that compares the names of the references and not their aliases
resolveAliasByName(alias, tableRefs) ==
    LET hits == { i \in DOMAIN tableRefs :
                    ToLowerCase(tableRefs[i].name) = ToLowerCase(alias) }
    IN  IF hits = {} THEN [found |-> FALSE]
        ELSE [found |-> TRUE, ref |-> tableRefs[Min(hits)]]

\* resolveAlias: the first reference whose alias or name is the alias, case
\* ignored
resolveAlias(alias, tableRefs) ==
    LET hits == { i \in DOMAIN tableRefs :
                    \/ /\ tableRefs[i].alias # <<>>
                       /\ ToLowerCase(tableRefs[i].alias) = ToLowerCase(alias)
                    \/ ToLowerCase(tableRefs[i].name) = ToLowerCase(alias) }
    IN  IF hits = {} THEN [found |-> FALSE]
        ELSE [found |-> TRUE, ref |-> tableRefs[Min(hits)]]

(***************************************************************************)
(* Completion providers                                                    *)
(*                                                                         *)
(* A completion carries its label, type, sortPriority and insertText; the  *)
(* describing fields (detail, documentation, metadata) are not carried.    *)
(***************************************************************************)
SQL_KEYWORDS ==
    <<<<"S","E","L","E","C","T">>,
      <<"F","R","O","M">>,
      <<"W","H","E","R","E">>,
      <<"G","R","O","U","P"," ","B","Y">>,
      <<"H","A","V","I","N","G">>,
      <<"O","R","D","E","R"," ","B","Y">>,
      <<"L","I","M","I","T">>,
      <<"O","F","F","S","E","T">>,
      <<"J","O","I","N">>,
      <<"I","N","N","E","R"," ","J","O","I","N">>,
      <<"L","E","F","T"," ","J","O","I","N">>,
      <<"R","I","G","H","T"," ","J","O","I","N">>,
      <<"F","U","L","L"," ","J","O","I","N">>,
      <<"C","R","O","S","S"," ","J","O","I","N">>,
      <<"O","N">>,
      <<"U","S","I","N","G">>,
      <<"U","N","I","O","N">>,
      <<"U","N","I","O","N"," ","A","L","L">>,
      <<"I","N","T","E","R","S","E","C","T">>,
      <<"E","X","C","E","P","T">>,
      <<"I","N","S","E","R","T"," ","I","N","T","O">>,
      <<"U","P","D","A","T","E">>,
      <<"D","E","L","E","T","E"," ","F","R","O","M">>,
      <<"V","A","L","U","E","S">>,
      <<"S","E","T">>,
      <<"C","R","E","A","T","E"," ","T","A","B","L","E">>,
      <<"A","L","T","E","R"," ","T","A","B","L","E">>,
      <<"D","R","O","P"," ","T","A","B","L","E">>,
      <<"C","R","E","A","T","E"," ","I","N","D","E","X">>,
      <<"D","R","O","P"," ","I","N","D","E","X">>,
      <<"A","N","D">>,
      <<"O","R">>,
      <<"N","O","T">>,
      <<"I","N">>,
      <<"B","E","T","W","E","E","N">>,
      <<"L","I","K","E">>,
      <<"I","S"," ","N","U","L","L">>,
      <<"I","S"," ","N","O","T"," ","N","U","L","L">>,
      <<"E","X","I","S","T","S">>,
      <<"A","N","Y">>,
      <<"A","L","L">>,
      <<"D","I","S","T","I","N","C","T">>,
      <<"A","S">>,
      <<"A","S","C">>,
      <<"D","E","S","C">>>>

\* getContextKeywords
getContextKeywords(context) ==
    CASE context.type = "select_list"  -> <<<<"D","I","S","T","I","N","C","T">>, <<"A","S">>, <<"F","R","O","M">>>>
      [] context.type = "from_clause"  -> <<<<"J","O","I","N">>,
                                          <<"I","N","N","E","R"," ","J","O","I","N">>,
                                          <<"L","E","F","T"," ","J","O","I","N">>,
                                          <<"R","I","G","H","T"," ","J","O","I","N">>,
                                          <<"W","H","E","R","E">>>>
      [] context.type = "where_clause" -> <<<<"A","N","D">>,
                                          <<"O","R">>,
                                          <<"G","R","O","U","P"," ","B","Y">>,
                                          <<"O","R","D","E","R"," ","B","Y">>,
                                          <<"L","I","M","I","T">>>>
      [] context.type = "join_clause"  -> <<<<"O","N">>, <<"U","S","I","N","G">>, <<"A","N","D">>>>
      [] context.type = "group_by"     -> <<<<"H","A","V","I","N","G">>, <<"O","R","D","E","R"," ","B","Y">>>>
      [] context.type = "order_by"     -> <<<<"A","S","C">>, <<"D","E","S","C">>, <<"L","I","M","I","T">>>>
      [] OTHER -> <<>>

\* SQL_FUNCTIONS: the name of each function, and whether its args are a
\* non-empty string
SQL_FUNCTIONS ==
    <<[name |-> <<"C","O","U","N","T">>, args |-> TRUE],
      [name |-> <<"S","U","M">>, args |-> TRUE],
      [name |-> <<"A","V","G">>, args |-> TRUE],
      [name |-> <<"M","I","N">>, args |-> TRUE],
      [name |-> <<"M","A","X">>, args |-> TRUE],
      [name |-> <<"C","O","N","C","A","T">>, args |-> TRUE],
      [name |-> <<"S","U","B","S","T","R","I","N","G">>, args |-> TRUE],
      [name |-> <<"U","P","P","E","R">>, args |-> TRUE],
      [name |-> <<"L","O","W","E","R">>, args |-> TRUE],
      [name |-> <<"T","R","I","M">>, args |-> TRUE],
      [name |-> <<"L","E","N","G","T","H">>, args |-> TRUE],
      [name |-> <<"N","O","W">>, args |-> FALSE],
      [name |-> <<"C","U","R","D","A","T","E">>, args |-> FALSE],
      [name |-> <<"D","A","T","E","_","A","D","D">>, args |-> TRUE],
      [name |-> <<"D","A","T","E","_","S","U","B">>, args |-> TRUE],
      [name |-> <<"D","A","T","E","D","I","F","F">>, args |-> TRUE],
      [name |-> <<"R","O","U","N","D">>, args |-> TRUE],
      [name |-> <<"F","L","O","O","R">>, args |-> TRUE],
      [name |-> <<"C","E","I","L">>, args |-> TRUE],
      [name |-> <<"A","B","S">>, args |-> TRUE],
      [name |-> <<"C","O","A","L","E","S","C","E">>, args |-> TRUE],
      [name |-> <<"N","U","L","L","I","F">>, args |-> TRUE],
      [name |-> <<"I","F","N","U","L","L">>, args |-> TRUE],
      [name |-> <<"C","A","S","E">>, args |-> TRUE]>>

KeywordCompletion(keyword, priority) ==
    [label |-> keyword, type |-> "keyword", sortPriority |-> priority]

\* KeywordCompletionProvider.provide: every keyword with priority 5, then the
\* keywords of the context once more with priority 3
KeywordProvide(context) ==
    [k \in DOMAIN SQL_KEYWORDS |-> KeywordCompletion(SQL_KEYWORDS[k], 5)]
    \o [k \in DOMAIN getContextKeywords(context) |->
            KeywordCompletion(getContextKeywords(context)[k], 3)]

\* FunctionCompletionProvider.provide: `${func.name}(${func.args ? '$1' : ''})`
FunctionProvide ==
    [k \in DOMAIN SQL_FUNCTIONS |->
        [label |-> SQL_FUNCTIONS[k].name, type |-> "function",
         insertText |-> SQL_FUNCTIONS[k].name \o <<"(">>
                        \o (IF SQL_FUNCTIONS[k].args THEN <<"$","1">> ELSE <<>>)
                        \o <<")">>,
         sortPriority |-> 4]]

\* TableCompletionProvider.provide
TableProvide(registry) ==
    [k \in DOMAIN getAllTables(registry, <<>>) |->
        [label |-> getAllTables(registry, <<>>)[k].name, type |-> "table",
         sortPriority |-> 1]]

\* the columns of the table or alias before the dot, priority 0
DotColumns(columns) ==
    [k \in DOMAIN columns |->
        [label |-> columns[k].name, type |-> "column", sortPriority |-> 0]]

DotProvide(table, registry) ==
    IF table.found
    THEN DotColumns(getColumns(registry, table.ref.name, table.ref.database))
    ELSE <<>>

\* the columns of one available table, inserted as prefix.column, priority 2
RefColumns(columns, prefix) ==
    [k \in DOMAIN columns |->
        [label |-> columns[k].name, type |-> "column",
         insertText |-> prefix \o <<".">> \o columns[k].name,
         sortPriority |-> 2]]

RECURSIVE AvailableColumns(_, _, _)
AvailableColumns(tableRefs, k, registry) ==
    IF k > Len(tableRefs) THEN <<>>
    ELSE RefColumns(getColumns(registry, tableRefs[k].name, tableRefs[k].database),
                    IF tableRefs[k].alias # <<>> THEN tableRefs[k].alias
                    ELSE tableRefs[k].name)
         \o AvailableColumns(tableRefs, k + 1, registry)

\* ColumnCompletionProvider.provide
ColumnProvide(context, registry) ==
    IF context.afterDot /\ "dotPrefix" \in DOMAIN context /\ context.dotPrefix # <<>>
    THEN DotProvide(resolveAlias(context.dotPrefix, context.availableTables), registry)
    ELSE AvailableColumns(context.availableTables, 1, registry)

\* provider.canProvide(context): whether it throws, and its answer.  A
\* provider registered by the host is any code: it throws or answers
\* provider.can.
canProvide(provider, context) ==
    CASE provider.kind = "column" ->
            [threw |-> FALSE,
             value |-> \/ context.type \in {"select_list", "where_clause", "group_by",
                                            "order_by", "having_clause"}
                       \/ context.afterDot]
      [] provider.kind = "table" ->
            [threw |-> FALSE,
             value |-> /\ context.type \in {"from_clause", "join_clause"}
                       /\ ~context.afterDot]
      [] provider.kind = "function" ->
            [threw |-> FALSE,
             value |-> /\ context.type \in {"select_list", "where_clause", "having_clause",
                                            "order_by", "function"}
                       /\ ~context.afterDot]
      [] provider.kind = "keyword" ->
            [threw |-> FALSE, value |-> ~context.afterDot]
      [] OTHER ->
            [threw |-> provider.canThrows, value |-> provider.can]

\* provider.provide(context, schema): whether it throws, and its completions
provide(provider, context, registry) ==
    CASE provider.kind = "column" ->
            [threw |-> FALSE, completions |-> ColumnProvide(context, registry)]
      [] provider.kind = "table" ->
            [threw |-> FALSE, completions |-> TableProvide(registry)]
      [] provider.kind = "function" ->
            [threw |-> FALSE, completions |-> FunctionProvide]
      [] provider.kind = "keyword" ->
            [threw |-> FALSE, completions |-> KeywordProvide(context)]
      [] OTHER ->
            [threw |-> provider.provideThrows, completions |-> provider.completions]

(***************************************************************************)
(* AutocompleteEngine                                                      *)
(***************************************************************************)
DEFAULT_AUTOCOMPLETE_OPTIONS ==
    [enabled |-> TRUE, triggerCharacters |-> <<".", " ">>, debounceMs |-> 150,
     maxSuggestions |-> 50, fuzzyMatch |-> TRUE, minCharacters |-> 0,
     caseSensitive |-> FALSE]

\* registerDefaultProviders
DefaultProviders ==
    <<[kind |-> "column"], [kind |-> "table"], [kind |-> "function"], [kind |-> "keyword"]>>

\* A score is the fraction num / den with den > 0, so that scores are
\* compared exactly.
Score(num, den) == [num |-> num, den |-> den]

ScoreLess(a, b) == a.num * b.den < b.num * a.den

ScoreEqual(a, b) == a.num * b.den = b.num * a.den

StartsWith(s, prefix) == HasLitAt(s, 1, prefix)

\* the loop of fuzzyMatch, 0-based indexes: ten times the score it adds up
\* (each match adds 1 + consecutiveMatches * 0.1), or -1 when the query is
\* not matched to its end
RECURSIVE FuzzyLoop(_, _, _, _, _, _)
FuzzyLoop(q, t, queryIndex, targetIndex, score10, consecutiveMatches) ==
    IF queryIndex < Len(q) /\ targetIndex < Len(t)
    THEN IF q[queryIndex + 1] = t[targetIndex + 1]
         THEN FuzzyLoop(q, t, queryIndex + 1, targetIndex + 1,
                        score10 + 10 + consecutiveMatches + 1, consecutiveMatches + 1)
         ELSE FuzzyLoop(q, t, queryIndex, targetIndex + 1, score10, 0)
    ELSE IF queryIndex = Len(q) THEN score10 ELSE -1

\* Math.min(1, matchRatio * lengthPenalty) * 0.6 with
\* matchRatio = score / (q.length * 1.5) and
\* lengthPenalty = 1 - (t.length - q.length) / t.length:
\* the product is score10 / (15 * t.length)
FuzzyScore(score10, q, t) ==
    IF score10 < 0 THEN Score(-1, 1)
    ELSE IF score10 >= 15 * Len(t) THEN Score(6, 10)
    ELSE Score(6 * score10, 150 * Len(t))

\* fuzzyMatch on the compared forms q and t
FuzzyCompared(q, t) ==
    IF q = t THEN Score(1, 1)
    ELSE IF StartsWith(t, q) THEN Score(9, 10)
    ELSE IF Includes(t, q) THEN Score(7, 10)
    ELSE FuzzyScore(FuzzyLoop(q, t, 0, 0, 0, 0), q, t)

fuzzyMatch(query, target, caseSensitive) ==
    IF query = <<>> THEN Score(1, 1)
    ELSE IF target = <<>> THEN Score(-1, 1)
    ELSE IF caseSensitive THEN FuzzyCompared(query, target)
    ELSE FuzzyCompared(ToLowerCase(query), ToLowerCase(target))

\* `a.sortPriority ?? 99`
PriorityOf(completion) ==
    IF "sortPriority" \in DOMAIN completion THEN completion.sortPriority ELSE 99

\* the collation weight of a character under String.prototype.localeCompare:
\* white space, then punctuation, then digits, then letters, a letter and
\* its capital weighing the same
CollationWeights ==
    Tabulate(LAMBDA c : 1, SpaceChars)
    @@ Tabulate(LAMBDA c : 10 + PositionIn(DigitChars, c), Range(DigitChars))
    @@ Tabulate(LAMBDA c : 30 + PositionIn(UpperChars, c), Range(UpperChars))
    @@ Tabulate(LAMBDA c : 30 + PositionIn(LowerChars, c), Range(LowerChars))

CollationWeight(c) ==
    IF c \in DOMAIN CollationWeights THEN CollationWeights[c]
    ELSE IF c = "_" THEN 2
    ELSE 3

\* a.localeCompare(b) < 0: the first difference of weight decides, a proper
\* prefix comes first, and between texts of equal weights the first
\* difference of case decides, the small letter first
LocaleLess(a, b) ==
    LET common == IF Len(a) < Len(b) THEN Len(a) ELSE Len(b)
        weight == { i \in 1..common : CollationWeight(a[i]) # CollationWeight(b[i]) }
        case   == { i \in 1..common : a[i] # b[i] }
    IN  IF weight # {}
        THEN CollationWeight(a[Min(weight)]) < CollationWeight(b[Min(weight)])
        ELSE IF Len(a) # Len(b) THEN Len(a) < Len(b)
        ELSE case # {} /\ a[Min(case)] \in Range(LowerChars)

\* the comparator of sortByPriority: the priority, then label.localeCompare
PriorityBefore(a, b) ==
    IF PriorityOf(a) # PriorityOf(b) THEN PriorityOf(a) < PriorityOf(b)
    ELSE LocaleLess(a.label, b.label)

\* a comparator that puts the priority before the score
ScoreBeforeByPriority(a, b) ==
    IF PriorityOf(a) # PriorityOf(b) THEN PriorityOf(a) < PriorityOf(b)
    ELSE ScoreLess(b.score, a.score)

\* the comparator of the fuzzy branch: the score, greatest first, then the
\* priority
ScoreBefore(a, b) ==
    IF ~ScoreEqual(a.score, b.score) THEN ScoreLess(b.score, a.score)
    ELSE PriorityOf(a) < PriorityOf(b)

\* the comparator handed to sort: that of sortByPriority, or that of the
\* fuzzy branch of filterAndRank
Before(order, a, b) ==
    IF order = "priority" THEN PriorityBefore(a, b) ELSE ScoreBefore(a, b)

\* Array.prototype.sort, which is stable: the element at index i goes behind
\* the earlier elements that the comparator does not put after it and behind
\* the later elements that the comparator puts before it
SortRanks(xs, order) ==
    { <<i, Cardinality({ j \in DOMAIN xs :
                           IF j < i THEN ~Before(order, xs[i], xs[j])
                           ELSE j > i /\ Before(order, xs[j], xs[i]) })>> : i \in DOMAIN xs }

Ranked(xs, ranks) ==
    [k \in DOMAIN xs |-> xs[(CHOOSE p \in ranks : p[2] = k - 1)[1]]]

SortBy(xs, order) == Ranked(xs, SortRanks(xs, order))

sortByPriority(completions) == SortBy(completions, "priority")

\* `completion.filterText || completion.label`
FilterTextOf(completion) ==
    IF "filterText" \in DOMAIN completion /\ completion.filterText # <<>>
    THEN completion.filterText
    ELSE completion.label

WithScore(completion, query, caseSensitive) ==
    [score |-> fuzzyMatch(query, FilterTextOf(completion), caseSensitive)] @@ completion

\* the fuzzy branch of filterAndRank
FuzzyRank(completions, query, caseSensitive) ==
    SortBy(SelectSeq([k \in DOMAIN completions |->
                         WithScore(completions[k], query, caseSensitive)],
                     LAMBDA c : c.score.num > 0),
           "score")

\* the prefix branch of filterAndRank: only the label is lower-cased beside
\* the query
PrefixRank(completions, query, caseSensitive) ==
    sortByPriority(
        SelectSeq(completions,
                  LAMBDA c : IF caseSensitive THEN StartsWith(c.label, query)
                             ELSE StartsWith(ToLowerCase(c.label), ToLowerCase(query))))

filterAndRank(completions, query, opts) ==
    IF query = <<>> /\ ~opts.fuzzyMatch THEN sortByPriority(completions)
    ELSE IF opts.fuzzyMatch /\ query # <<>>
         THEN FuzzyRank(completions, query, opts.caseSensitive)
    ELSE IF query # <<>> THEN PrefixRank(completions, query, opts.caseSensitive)
    ELSE sortByPriority(completions)

\* a slice that takes one element more
SliceInclusive(xs, n) == SubSeq(xs, 1, Clamp(n + 1, Len(xs)))

\* Array.prototype.slice(0, n): a negative n counts from the end
SliceTo(xs, n) ==
    SubSeq(xs, 1, IF n < 0 THEN Clamp(Len(xs) + n, Len(xs)) ELSE Clamp(n, Len(xs)))

\* one provider of the loop whose canProvide has answered true
ProviderProvided(provided) ==
    [threw |-> provided.threw,
     thrown |-> IF provided.threw THEN "provide" ELSE "none",
     completions |-> provided.completions]

\* one provider of the loop: its canProvide, then its provide
ProviderRun(can, provider, context, registry) ==
    IF can.threw THEN [threw |-> TRUE, thrown |-> "canProvide", completions |-> <<>>]
    ELSE IF ~can.value THEN [threw |-> FALSE, thrown |-> "none", completions |-> <<>>]
    ELSE ProviderProvided(provide(provider, context, registry))

\* the loop over this.providers from the k-th on: what was thrown, if
\* anything, the completions pushed, and how many providers were asked
RECURSIVE RunProviders(_, _, _, _, _)
RECURSIVE AfterProvider(_, _, _, _, _, _)
AfterProvider(ps, k, context, registry, allCompletions, ran) ==
    IF ran.threw
    THEN [threw |-> TRUE, thrown |-> ran.thrown, completions |-> allCompletions,
          asked |-> k]
    ELSE RunProviders(ps, k + 1, context, registry, allCompletions \o ran.completions)

RunProviders(ps, k, context, registry, allCompletions) ==
    IF k > Len(ps)
    THEN [threw |-> FALSE, thrown |-> "none", completions |-> allCompletions,
          asked |-> Len(ps)]
    ELSE AfterProvider(ps, k, context, registry, allCompletions,
                       ProviderRun(canProvide(ps[k], context), ps[k], context, registry))

\* a catch block that passes the exception on to the caller
GetSuggestionsCatchRethrows(thrown) ==
    [outcome |-> "threw", thrown |-> thrown, result |-> <<>>]

\* the catch block of getSuggestions: the error is logged, `return []`
GetSuggestionsCatch(thrown) ==
    [outcome |-> "returned", thrown |-> thrown, result |-> <<>>]

\* a return of getSuggestions outside the catch block
GetSuggestionsReturn(result) ==
    [outcome |-> "returned", thrown |-> "none", result |-> result]

\* getSuggestions once the providers have run
SuggestionsRanked(ran, context, opts) ==
    IF ran.threw THEN [asked |-> ran.asked] @@ GetSuggestionsCatch(ran.thrown)
    ELSE [context |-> context, asked |-> ran.asked]
         @@ GetSuggestionsReturn(
                SliceTo(filterAndRank(ran.completions, context.currentToken, opts),
                        opts.maxSuggestions))

\* getSuggestions once the context is detected
SuggestionsIn(detected, ps, opts, registry) ==
    IF detected.threw THEN [asked |-> 0] @@ GetSuggestionsCatch("detectContext")
    ELSE IF /\ opts.minCharacters > 0
            /\ Len(detected.context.currentToken) < opts.minCharacters
            /\ ~detected.context.afterDot
         THEN [context |-> detected.context, asked |-> 0] @@ GetSuggestionsReturn(<<>>)
    ELSE SuggestionsRanked(RunProviders(ps, 1, detected.context, registry, <<>>),
                           detected.context, opts)

\* the try block of getSuggestions, p being the outcome of
\* this.parser.parse(sql): parsed tells that the parser was called, asked how
\* many providers were asked whether they can provide
SuggestionsTry(sql, position, registry, ps, opts, p) ==
    [parsed |-> TRUE]
    @@ (IF p.outcome = "threw" THEN [asked |-> 0] @@ GetSuggestionsCatch("parse")
        ELSE SuggestionsIn(detectContext(sql, position, p.result.tableRefs), ps, opts,
                           registry))

\* an engine that does not look at options.enabled
getSuggestionsAlways(sql, position, registry, ps, opts, p) ==
    SuggestionsTry(sql, position, registry, ps, opts, p)

\* getSuggestions(sql, position, schema): `if (!this.options.enabled) return []`
\* comes first
getSuggestions(sql, position, registry, ps, opts, p) ==
    IF ~opts.enabled
    THEN [parsed |-> FALSE, asked |-> 0] @@ GetSuggestionsReturn(<<>>)
    ELSE SuggestionsTry(sql, position, registry, ps, opts, p)

(***************************************************************************)
(* Inputs of the validation service                                        *)
(***************************************************************************)
\* validators of the caller: one that reports an error, one that reports an
\* error that carries no type, one that reports nothing, one that throws
ValidatorPlugins ==
    { [name |-> "where-required", throws |-> FALSE, thrown |-> NoThrow,
       errors |-> <<[message |-> "WHERE is required", severity |-> "warning",
                     type |-> "semantic"]>>],
      [name |-> "untyped", throws |-> FALSE, thrown |-> NoThrow,
       errors |-> <<[message |-> "validator finding", severity |-> "info"]>>],
      [name |-> "quiet", throws |-> FALSE, thrown |-> NoThrow, errors |-> <<>>],
      [name |-> "broken", throws |-> TRUE,
       thrown |-> [isError |-> TRUE, message |-> "validator failure"],
       errors |-> <<>>] }

\* rules: two of the library, and two of the caller (one throws, one returns
\* an error that carries no type)
PerformanceRule == [name |-> "performance-validation", kind |-> "performance"]

NamingRule == [name |-> "naming-convention", kind |-> "naming"]

ThrowingRule == [name |-> "throwing-rule", kind |-> "plugin", throws |-> TRUE, errors |-> <<>>]

UntypedRule ==
    [name |-> "untyped-rule", kind |-> "plugin", throws |-> FALSE,
     errors |-> <<[message |-> "rule finding", severity |-> "info"]>>]

SchemaRule == [name |-> "schema-validation", kind |-> "schema"]

Rules == {PerformanceRule, NamingRule, SchemaRule, ThrowingRule, UntypedRule}

\* rule configurations: each rule enabled; the performance rule switched
\* off, and enabled with type warning; a configuration with no enabled field
RuleConfigs ==
    { [rule |-> r, enabled |-> TRUE] : r \in Rules }
    \cup { [rule |-> PerformanceRule, enabled |-> FALSE],
           [rule |-> PerformanceRule, type |-> "warning", enabled |-> TRUE],
           [rule |-> UntypedRule] }

MaxValidators == 2

MaxRules == 2

ValidatorEngines ==
    { e \in EngineAnswers :
        \/ e.throws /\ e.thrown.isError
        \/ ~e.throws /\ e.ast = ProgramAst /\ e.errors \in {<<>>, <<ErrFull(1)>>} }

(***************************************************************************)
(* Inputs of the completion engine                                         *)
(***************************************************************************)
EmptySchema == [databases |-> <<>>]

\* one database with the tables users(id, name) and orders(id, uid)
AppSchema ==
    [databases |->
        <<[name |-> <<"a","p","p">>,
           tables |->
              <<[name |-> tUsers,
                 columns |-> <<[name |-> <<"i","d">>, type |-> "int"],
                               [name |-> <<"n","a","m","e">>, type |-> "varchar"]>>],
                [name |-> tOrders,
                 columns |-> <<[name |-> <<"i","d">>, type |-> "int"],
                               [name |-> <<"u","i","d">>, type |-> "int"]>>]>>]>>]

cUsername == <<"u","s","e","r","n","a","m","e">>

cUserEmail == <<"u","s","e","r","_","e","m","a","i","l">>

\* one database with the table users, its columns in the order given
NamesSchema(columns) ==
    [databases |->
        <<[name |-> <<"t","e","s","t","d","b">>,
           tables |->
              <<[name |-> tUsers,
                 columns |-> [k \in DOMAIN columns |->
                                 [name |-> columns[k], type |-> "varchar"]]]>>]>>]

Schemas ==
    {AppSchema, NamesSchema(<<cUsername, cUserEmail>>), NamesSchema(<<cUserEmail, cUsername>>)}

\* providers of the host: one that answers with a completion that has no
\* sortPriority, one whose canProvide throws, one whose provide throws
CustomProviders ==
    { [kind |-> "custom", id |-> "views", canThrows |-> FALSE, can |-> TRUE,
       provideThrows |-> FALSE,
       completions |-> <<[label |-> <<"u","s","e","r","s","_","v">>, type |-> "table"]>>],
      [kind |-> "custom", id |-> "brokenCan", canThrows |-> TRUE, can |-> FALSE,
       provideThrows |-> FALSE, completions |-> <<>>],
      [kind |-> "custom", id |-> "brokenProvide", canThrows |-> FALSE, can |-> TRUE,
       provideThrows |-> TRUE, completions |-> <<>>] }

\* the engine holds its four providers and at most two of the host
MaxProviders == 6

\* partial options given to setOptions
PartialOptions ==
    { [enabled |-> FALSE], [enabled |-> TRUE], [minCharacters |-> 2],
      [fuzzyMatch |-> FALSE], [maxSuggestions |-> 1], [maxSuggestions |-> 0] }

\* the position at the end of the text
EndPosition(sql) ==
    [line |-> Len(SplitLines(sql)) - 1,
     column |-> Len(SplitLines(sql)[Len(SplitLines(sql))])]

\* the positions asked for in a text: its end, line 0 column 9, and no
\* position at all
Positions(sql) == {EndPosition(sql), [line |-> 0, column |-> 9], Undefined}

\* texts in which a context is asked for: at most MaxContextWords words, one
\* space between two words
MaxContextWords == 3

ContextWords ==
    { kwSELECT, <<"f","r","o","m">>, kwJOIN, kwON, <<"W","h","e","r","e">>,
      <<"h","a","v","i","n","g">>, <<"O","R","D","E","R"," ","B","Y">>,
      <<"G","R","O","U","P"," ","B","Y">>, <<"(">>, <<")">>, <<"u",".">>,
      <<"u",".","n","a">>, <<"s","e","l","e","c","t","i","o","n">> }

RECURSIVE JoinWords(_)
JoinWords(ws) ==
    IF ws = <<>> THEN <<>>
    ELSE IF Len(ws) = 1 THEN Head(ws)
    ELSE Head(ws) \o Sp \o JoinWords(Tail(ws))

ContextTexts == { JoinWords(ws) : ws \in SeqsUpTo(ContextWords, MaxContextWords) }

\* the positions asked for in such a text: its end and line 0 column 7
ContextPositions(sql) == {EndPosition(sql), [line |-> 0, column |-> 7]}

\* the table references handed to detectContext
SampleRefs == <<[name |-> tUsers, alias |-> aU]>>

\* catalogs registered with the registry alone: the application's; one with
\* users alone; two databases, the first with the table Users and the second
\* with the table users; one database with both spellings
TwoSpellings ==
    [databases |->
        <<[name |-> <<"m","a","i","n">>,
           tables |-> <<[name |-> <<"U","s","e","r","s">>,
                         columns |-> <<[name |-> <<"I","D">>, type |-> "int"]>>]>>],
          [name |-> <<"o","l","d">>,
           tables |-> <<[name |-> tUsers,
                         columns |-> <<[name |-> <<"i","d">>, type |-> "int"]>>]>>]>>]

BothSpellings ==
    [databases |->
        <<[name |-> <<"m","a","i","n">>,
           tables |-> <<[name |-> <<"U","s","e","r","s">>,
                         columns |-> <<[name |-> <<"I","D">>, type |-> "int"]>>],
                        [name |-> tUsers,
                         columns |-> <<[name |-> <<"i","d">>, type |-> "int"]>>]>>]>>]

RegistrySchemas ==
    {AppSchema, NamesSchema(<<cUsername, cUserEmail>>), TwoSpellings, BothSpellings}

\* the catalogs handed to ValidatorService.validate
ValidatorCatalogs == {EmptySchema, AppSchema, TwoSpellings}

\* the names looked up, and the databases named in a lookup (<<>>: none)
LookupNames ==
    { tUsers, <<"U","s","e","r","s">>, <<"U","S","E","R","S">>, tOrders,
      <<"a","p","p">>, <<"M","A","I","N">>, <<"o","l","d">>, <<"i","d">> }

LookupDatabases == { <<>>, <<"a","p","p">>, <<"M","a","i","n">>, <<"o","l","d">> }

SearchQueries == { <<>>, <<"u","s","e","r">>, <<"I","D">>, <<"a">> }

SearchOptions ==
    { [type |-> t, database |-> d, limit |-> l] :
        t \in {"", "database", "table", "column"},
        d \in { <<>>, <<"o","l","d">> },
        l \in {0, 1} }

\* the partial options given to the constructor: none, or the engine is
\* switched off from the start
ConstructorOptions == { <<>>, [enabled |-> FALSE] }

\* the answers of the grammar engine to the engine's own parser
CompletionEngines ==
    { e \in EngineAnswers : /\ e.ast = NullAst
                            /\ e.errors = <<>>
                            /\ e.throws => e.thrown.isError }

(***************************************************************************)
(* ParserService.traverseAST, one call of the recursion at a time          *)
(*                                                                         *)
(* walk.stack holds the calls of traverseAST that have not returned: the   *)
(* node of each and the position k of the property its loop is at.         *)
(* walk.calls lists the nodes the callback was invoked with, walk.followed *)
(* the keys of the properties the loop has gone into.                      *)
(***************************************************************************)
NoWalk == [ast |-> NullAst, stack |-> <<>>, visited |-> {}, calls |-> <<>>, followed |-> {}]

\* traverseAST(node, callback, visited) up to its loop: nothing for a node
\* that is null or visited, else the node is added to visited and the
\* callback invoked
TraverseEnter(w, id) ==
    IF id = 0 \/ id \in w.visited THEN w
    ELSE [w EXCEPT !.visited = @ \cup {id},
                   !.calls   = Append(@, id),
                   !.stack   = Append(@, [node |-> id, k |-> 1])]

\* the innermost call goes on: its loop is over and it returns, or the loop
\* skips a key of skipKeys (an array is walked by its items, with no key
\* skipped), or it calls traverseAST on the value of the property
TraverseAdvance(w) ==
    LET top   == w.stack[Len(w.stack)]
        node  == w.ast.nodes[top.node]
        prop  == node.props[top.k]
        moved == [w EXCEPT !.stack[Len(w.stack)].k = top.k + 1]
    IN  IF top.k > Len(node.props) THEN [w EXCEPT !.stack = SubSeq(@, 1, Len(@) - 1)]
        ELSE IF node.type # "array" /\ prop[1] \in SkipKeys THEN moved
        ELSE TraverseEnter([moved EXCEPT !.followed = @ \cup {prop[1]}], prop[2])

\* ASTs with shared and cyclic nodes: every graph of MaxNodes nodes in which
\* each node has a property from and a property parent, each one null or
\* one of the nodes
MaxNodes == 2

GraphNode(from, parent) ==
    Node("table", tUsers, Undefined,
         (IF from = 0 THEN <<>> ELSE << <<"from", from>> >>)
         \o (IF parent = 0 THEN <<>> ELSE << <<"parent", parent>> >>))

GraphAsts ==
    { [root |-> 1, nodes |-> [n \in 1..MaxNodes |-> GraphNode(g[n][1], g[n][2])]] :
        g \in [1..MaxNodes -> (0..MaxNodes) \X (0..MaxNodes)] }

\* an array that holds the same select twice, the select reaching the array
\* again through its from and its parser context through parentCtx,
\* invokingState and _parent
SharedAst ==
    [root  |-> 1,
     nodes |-> << Node("array", Undefined, Undefined, << <<"0", 2>>, <<"1", 2>> >>),
                  Node("select", Undefined, Undefined,
                       << <<"parentCtx", 3>>, <<"from", 1>>, <<"invokingState", 3>>,
                          <<"_parent", 3>> >>),
                  Node("table", tOrders, Undefined, <<>>) >>]

WalkAsts == Asts \cup GraphAsts \cup {SharedAst}

(***************************************************************************)
(* debounce and debounceAsync                                              *)
(*                                                                         *)
(* debounced holds one function made by debounce(func, wait) or by         *)
(* debounceAsync(func, wait): the variables of its closure (timeout,       *)
(* pending), the timers of the runtime, the clock, and what has happened   *)
(* so far: the calls, the invocations of func, the promises handed out     *)
(* and the invocations of func whose promise has not settled. The n-th     *)
(* call makes timer n and, for debounceAsync, promise n; a call notes how  *)
(* many invocations came before it and whether func was running, an        *)
(* invocation the timer it came from and how func ended.                   *)
(***************************************************************************)
NewDebounced(kind, wait) ==
    [kind |-> kind, wait |-> wait, now |-> 0,
     timeout |-> 0, pending |-> <<>>, timers |-> {},
     calls |-> <<>>, invocations |-> <<>>, promises |-> <<>>, running |-> {}]

NoDebounced == NewDebounced("debounce", 0)

\* clearTimeout(id): the timer is taken out of the runtime's table; an id
\* that names no live timer does nothing
ClearTimeout(timers, id) == { t \in timers : t.id # id }

\* a debounced function that does not clear the timer of the call before
KeepTimeout(timers, id) == timers

\* `if (timeout) clearTimeout(timeout)`
ClearPending(timers, id) == IF id # 0 THEN ClearTimeout(timers, id) ELSE timers

\* debounced(...args): the timer of the call before is cleared and a new one
\* is set for wait ms from now; debounceAsync also pushes the resolvers of
\* the promise it returns
DebouncedCalled(d, args) ==
    LET n == Len(d.calls) + 1
    IN  [d EXCEPT
           !.timers   = ClearPending(@, d.timeout)
                           \cup {[id |-> n, due |-> d.now + d.wait, args |-> args]},
           !.timeout  = n,
           !.pending  = IF d.kind = "debounceAsync" THEN Append(@, n) ELSE @,
           !.promises = IF d.kind = "debounceAsync"
                        THEN Append(@, [state |-> "pending", by |-> 0]) ELSE @,
           !.calls    = Append(@, [at |-> d.now, args |-> args,
                                   before |-> Len(d.invocations),
                                   busy |-> d.running # {}])]

\* the callback of debounce's timer: func(...args), then timeout = null; a
\* func that throws leaves timeout as it is
DebounceTimer(d, t, throws) ==
    [d EXCEPT
       !.timers      = @ \ {t},
       !.invocations = Append(@, [at |-> d.now, args |-> t.args, timer |-> t.id,
                                  outcome |-> IF throws THEN "threw" ELSE "returned"]),
       !.timeout     = IF throws THEN @ ELSE 0]

\* the callback of debounceAsync's timer up to its await: pending is taken
\* and emptied, timeout = null, func(...args) is called
DebounceAsyncTimer(d, t) ==
    [d EXCEPT
       !.timers      = @ \ {t},
       !.invocations = Append(@, [at |-> d.now, args |-> t.args, timer |-> t.id,
                                  outcome |-> "pending"]),
       !.timeout     = 0,
       !.pending     = <<>>,
       !.running     = @ \cup {[invocation |-> Len(d.invocations) + 1,
                                 currentPending |-> d.pending]}]

\* a callback that settles the promise of the last call alone
SettleLast(promises, currentPending, settled) ==
    [n \in DOMAIN promises |->
        IF currentPending # <<>> /\ n = currentPending[Len(currentPending)]
        THEN settled ELSE promises[n]]

\* currentPending.forEach((p) => p.resolve(result)), or p.reject(error)
SettleEach(promises, currentPending, settled) ==
    [n \in DOMAIN promises |->
        IF n \in Range(currentPending) THEN settled ELSE promises[n]]

\* the callback of debounceAsync's timer after its await: the promise of
\* func has settled (state), and every promise of currentPending is resolved
\* with the result, or rejected with the error
FuncSettled(d, r, state) ==
    [d EXCEPT
       !.running     = @ \ {r},
       !.invocations = [@ EXCEPT ![r.invocation].outcome = state],
       !.promises    = SettleEach(@, r.currentPending,
                                  [state |-> state, by |-> r.invocation])]

\* the timers that are due
DueTimers(d) == { t \in d.timers : t.due <= d.now }

\* bounds and inputs of the debounced function
MaxCalls == 3

MaxTime == 5

Waits == {2, 3}

CallArgs == {"a", "b"}

(***************************************************************************)
(* useSQLEditor                                                            *)
(*                                                                         *)
(* The hook keeps a SchemaRegistry, an AutocompleteEngine and a            *)
(* ValidatorService for the life of the component (schema, providers,      *)
(* validators and validationRules above). hook holds what React keeps      *)
(* between two renders: the dependencies of the three registering effects  *)
(* as they were at the last render, the states value and errors, and       *)
(* whether the timer of the validating effect is pending. An option is an  *)
(* object with an identity (ref) and a content (value); ref 0 is undefined.*)
(***************************************************************************)
NoOption == [ref |-> 0, value |-> <<>>]

NoSchemaOption == [ref |-> 0, value |-> EmptySchema]

NoHook ==
    [mounted |-> FALSE,
     deps    |-> [schema |-> NoSchemaOption, completionProviders |-> NoOption,
                  validators |-> NoOption],
     value   |-> <<>>,
     errors  |-> <<>>,
     timer   |-> FALSE]

(***************************************************************************)
(* The core as a state machine                                             *)
(***************************************************************************)
Init ==
    /\ lastIndex = 0
    /\ embeddedVariables = FALSE
    /\ validators = <<>>
    /\ validationRules = <<>>
    /\ providers = DefaultProviders
    /\ options = DEFAULT_AUTOCOMPLETE_OPTIONS
    /\ schema = EmptySchema
    /\ call = [op |-> "new"]
    /\ walk = NoWalk
    /\ debounced = NoDebounced
    /\ hook = NoHook

\* no call is in progress: the core is synchronous, and the caller has taken
\* the result of the last call
Idle == call.op \in {"new", "idle"}

\* the caller takes the result of the last call
Return ==
    /\ ~Idle
    /\ call' = [op |-> "idle"]
    /\ UNCHANGED <<walk, debounced, hook, lastIndex, embeddedVariables, validators, validationRules,
                   providers, options, schema>>

\* ParserService.setOptions({ embeddedVariables })
SetOptions(b) ==
    /\ Idle
    /\ embeddedVariables' = b
    /\ call' = [op |-> "setOptions"]
    /\ UNCHANGED <<walk, debounced, hook, lastIndex, validators, validationRules, providers, options, schema>>

\* VariableHandler.hasVariables(sql), on any instance: the pattern is static
HasVariables(sql) ==
    LET r == hasVariables(sql, lastIndex)
    IN  /\ Idle
        /\ lastIndex' = r.lastIndex
        /\ call' = [op |-> "hasVariables", sql |-> sql, result |-> r.result]
        /\ UNCHANGED <<walk, debounced, hook, embeddedVariables, validators, validationRules, providers, options, schema>>

\* VariableHandler.extractVariables(sql)
ExtractVariables(sql) ==
    LET r == extractVariables(sql)
    IN  /\ Idle
        /\ lastIndex' = r.lastIndex
        /\ call' = [op |-> "extractVariables", sql |-> sql, result |-> r.result]
        /\ UNCHANGED <<walk, debounced, hook, embeddedVariables, validators, validationRules, providers, options, schema>>

\* VariableHandler.escapeVariables(sql)
EscapeVariables(sql) ==
    /\ Idle
    /\ lastIndex' = 0
    /\ call' = [op |-> "escapeVariables", sql |-> sql, result |-> escapeVariables(sql)]
    /\ UNCHANGED <<walk, debounced, hook, embeddedVariables, validators, validationRules, providers, options, schema>>

\* VariableHandler.revertEscapedSql(escaped.escapedSql, escaped.variableMap),
\* the caller passing on what escapeVariables has just returned
RevertEscapedSql ==
    /\ call.op = "escapeVariables"
    /\ call' = [op |-> "revertEscapedSql", sql |-> call.sql, escaped |-> call.result,
                result |-> revertEscapedSql(call.result.escapedSql,
                                            call.result.variableMap)]
    /\ UNCHANGED <<walk, debounced, hook, lastIndex, embeddedVariables, validators, validationRules,
                   providers, options, schema>>

\* what a call of parse leaves in call: its arguments and all of p, the
\* outcome of parse
ParseCall(op, sql, engine, embedded, p) ==
    [op |-> op, sql |-> sql, engine |-> engine, embedded |-> embedded,
     outcome |-> p.outcome, result |-> p.result, engineInput |-> p.engineInput,
     variableMap |-> p.variableMap, lastIndex |-> p.lastIndex,
     returned |-> validate(p.result)]

\* ParserService.parse(sql)
Parse(sql, engine) ==
    /\ Idle
    /\ call' = ParseCall("parse", sql, engine, embeddedVariables,
                         parse(sql, lastIndex, embeddedVariables, engine))
    /\ lastIndex' = call'.lastIndex
    /\ UNCHANGED <<walk, debounced, hook, embeddedVariables, validators, validationRules, providers, options, schema>>

\* ParserService.validate(sql): `return this.parse(sql).success`
Validate(sql, engine) ==
    /\ Idle
    /\ call' = ParseCall("validate", sql, engine, embeddedVariables,
                         parse(sql, lastIndex, embeddedVariables, engine))
    /\ lastIndex' = call'.lastIndex
    /\ UNCHANGED <<walk, debounced, hook, embeddedVariables, validators, validationRules, providers, options, schema>>

\* ValidatorService.registerValidator(validator)
RegisterValidator(v) ==
    /\ Idle
    /\ Len(validators) < MaxValidators
    /\ validators' = Append(validators, v)
    /\ call' = [op |-> "registerValidator"]
    /\ UNCHANGED <<walk, debounced, hook, lastIndex, embeddedVariables, validationRules, providers, options, schema>>

\* Array.prototype.indexOf(x) + 1: the first position of x, or 0
IndexOf(xs, x) ==
    LET hits == { i \in DOMAIN xs : xs[i] = x }
    IN  IF hits = {} THEN 0 ELSE Min(hits)

\* Array.prototype.splice(index, 1)
RemoveAt(xs, k) == SubSeq(xs, 1, k - 1) \o SubSeq(xs, k + 1, Len(xs))

\* ValidatorService.removeValidator(validator)
RemoveValidator(v) ==
    LET index == IndexOf(validators, v)
    IN  /\ Idle
        /\ validators' = IF index # 0 THEN RemoveAt(validators, index) ELSE validators
        /\ call' = [op |-> "removeValidator"]
        /\ UNCHANGED <<walk, debounced, hook, lastIndex, embeddedVariables, validationRules, providers, options, schema>>

\* ValidatorService.addRule(ruleConfig)
AddRule(ruleConfig) ==
    /\ Idle
    /\ Len(validationRules) < MaxRules
    /\ validationRules' = Append(validationRules, ruleConfig)
    /\ call' = [op |-> "addRule"]
    /\ UNCHANGED <<walk, debounced, hook, lastIndex, embeddedVariables, validators, providers, options, schema>>

\* ValidatorService.removeRule(ruleName): Array.prototype.filter
RemoveRule(ruleName) ==
    LET Keep(rc) == rc.rule.name # ruleName
    IN  /\ Idle
        /\ validationRules' = SelectSeq(validationRules, Keep)
        /\ call' = [op |-> "removeRule"]
        /\ UNCHANGED <<walk, debounced, hook, lastIndex, embeddedVariables, validators, providers, options, schema>>

\* what a call of ValidatorService.validate leaves in call, p being the
\* outcome of this.parser.parse(sql)
ValidatorCall(sql, registry, engine, vs, rules, p) ==
    [op |-> "validatorValidate", sql |-> sql, schema |-> registry, engine |-> engine,
     validators |-> vs, validationRules |-> rules,
     parseResult |-> p.result, lastIndex |-> p.lastIndex,
     result |-> validatorValidate(sql, registry, p.result, vs, rules)]

\* ValidatorService.validate(sql, schema): the service parses with a parser of
\* its own, whose embeddedVariables is never set
ValidatorValidate(sql, registry, engine) ==
    /\ Idle
    /\ call' = ValidatorCall(sql, registry, engine, validators, validationRules,
                             parse(sql, lastIndex, FALSE, engine))
    /\ lastIndex' = call'.lastIndex
    /\ UNCHANGED <<walk, debounced, hook, embeddedVariables, validators, validationRules, providers, options, schema>>

\* a registerSchema that adds the databases of the new definition to those
\* registered before
MergeSchema(registered, s) ==
    [databases |->
        SelectSeq(registered.databases,
                  LAMBDA d : \A k \in DOMAIN s.databases : s.databases[k].name # d.name)
        \o s.databases]

\* registerSchema: `this.schema = schema`
ReplaceSchema(registered, s) == s

\* SchemaRegistry.registerSchema(schema); call keeps the definition given and
\* the one that was registered before
RegisterSchema(s) ==
    /\ Idle
    /\ schema' = ReplaceSchema(schema, s)
    /\ call' = [op |-> "registerSchema", schema |-> s, replaced |-> schema]
    /\ UNCHANGED <<walk, debounced, hook, lastIndex, embeddedVariables, validators, validationRules,
                   providers, options>>

\* SchemaRegistry.clear()
ClearSchema ==
    /\ Idle
    /\ schema' = EmptySchema
    /\ call' = [op |-> "clear"]
    /\ UNCHANGED <<walk, debounced, hook, lastIndex, embeddedVariables, validators, validationRules,
                   providers, options>>

\* AutocompleteEngine.registerProvider(provider)
RegisterProvider(provider) ==
    /\ Idle
    /\ Len(providers) < MaxProviders
    /\ providers' = Append(providers, provider)
    /\ call' = [op |-> "registerProvider", provider |-> provider]
    /\ UNCHANGED <<walk, debounced, hook, lastIndex, embeddedVariables, validators, validationRules,
                   options, schema>>

\* AutocompleteEngine.removeProvider(provider): the first occurrence goes, if
\* there is one
RemoveProvider(provider) ==
    /\ Idle
    /\ providers' = IF IndexOf(providers, provider) # 0
                    THEN RemoveAt(providers, IndexOf(providers, provider))
                    ELSE providers
    /\ call' = [op |-> "removeProvider", provider |-> provider]
    /\ UNCHANGED <<walk, debounced, hook, lastIndex, embeddedVariables, validators, validationRules,
                   options, schema>>

\* AutocompleteEngine.setOptions(options): `{ ...this.options, ...options }`
EngineSetOptions(partial) ==
    /\ Idle
    /\ options' = partial @@ options
    /\ call' = [op |-> "engineSetOptions", options |-> partial]
    /\ UNCHANGED <<walk, debounced, hook, lastIndex, embeddedVariables, validators, validationRules,
                   providers, schema>>

\* what a call of getSuggestions leaves in call: its arguments, the state
\* of the engine, and s, the outcome (with the context when one was detected)
SuggestionsCall(sql, position, engine, ps, opts, s) ==
    [op |-> "getSuggestions", sql |-> sql, position |-> position, engine |-> engine,
     providers |-> ps, options |-> opts]
    @@ s

\* AutocompleteEngine.getSuggestions(sql, position, schema): the engine parses
\* with a parser of its own, whose embeddedVariables is never set, so the
\* static lastIndex is not touched
GetSuggestions(sql, position, engine) ==
    /\ Idle
    /\ call' = SuggestionsCall(sql, position, engine, providers, options,
                   getSuggestions(sql, position, schema, providers, options,
                                  parse(sql, lastIndex, FALSE, engine)))
    /\ UNCHANGED <<walk, debounced, hook, lastIndex, embeddedVariables, validators, validationRules,
                   providers, options, schema>>

\* detectContext(sql, position, tableRefs), a function of its arguments
DetectContext(sql, position, tableRefs) ==
    /\ Idle
    /\ call' = [op |-> "detectContext", sql |-> sql, position |-> position,
                tableRefs |-> tableRefs,
                result |-> detectContext(sql, position, tableRefs)]
    /\ UNCHANGED <<walk, debounced, hook, lastIndex, embeddedVariables, validators, validationRules,
                   providers, options, schema>>

\* SchemaRegistry.getDatabase(database)
GetDatabase(database) ==
    /\ Idle
    /\ call' = [op |-> "getDatabase", database |-> database,
                result |-> getDatabase(schema, database)]
    /\ UNCHANGED <<walk, debounced, hook, lastIndex, embeddedVariables, validators, validationRules,
                   providers, options, schema>>

\* SchemaRegistry.getTable(tableName, database)
GetTable(tableName, database) ==
    /\ Idle
    /\ call' = [op |-> "getTable", tableName |-> tableName, database |-> database,
                result |-> getTable(schema, tableName, database)]
    /\ UNCHANGED <<walk, debounced, hook, lastIndex, embeddedVariables, validators, validationRules,
                   providers, options, schema>>

\* SchemaRegistry.getColumns(tableName, database)
GetColumns(tableName, database) ==
    /\ Idle
    /\ call' = [op |-> "getColumns", tableName |-> tableName, database |-> database,
                result |-> getColumns(schema, tableName, database)]
    /\ UNCHANGED <<walk, debounced, hook, lastIndex, embeddedVariables, validators, validationRules,
                   providers, options, schema>>

\* SchemaRegistry.getAllTables(database)
GetAllTables(database) ==
    /\ Idle
    /\ call' = [op |-> "getAllTables", database |-> database,
                result |-> getAllTables(schema, database)]
    /\ UNCHANGED <<walk, debounced, hook, lastIndex, embeddedVariables, validators, validationRules,
                   providers, options, schema>>

\* SchemaRegistry.search(query, options)
Search(query, searchOptions) ==
    /\ Idle
    /\ call' = [op |-> "search", query |-> query, options |-> searchOptions,
                result |-> search(schema, query, searchOptions)]
    /\ UNCHANGED <<walk, debounced, hook, lastIndex, embeddedVariables, validators, validationRules,
                   providers, options, schema>>

Next ==
    \/ Return
    \/ \E b \in BOOLEAN : SetOptions(b)
    \/ \E sql \in VariableTexts : HasVariables(sql)
    \/ \E sql \in VariableTexts : ExtractVariables(sql)
    \/ \E sql \in VariableTexts : EscapeVariables(sql)
    \/ RevertEscapedSql
    \/ \E sql \in ParseTexts, engine \in EngineAnswers : Parse(sql, engine)
    \/ \E sql \in ParseTexts, engine \in EngineAnswers : Validate(sql, engine)

Spec == Init /\ [][Next]_vars

\* the validation service
NextValidator ==
    \/ Return
    \/ \E v \in ValidatorPlugins : RegisterValidator(v)
    \/ \E v \in ValidatorPlugins : RemoveValidator(v)
    \/ \E rc \in RuleConfigs : AddRule(rc)
    \/ \E rc \in RuleConfigs : RemoveRule(rc.rule.name)
    \/ \E sql \in ValidatorTexts, registry \in ValidatorCatalogs, engine \in ValidatorEngines :
          ValidatorValidate(sql, registry, engine)

SpecValidator == Init /\ [][NextValidator]_vars

\* the completion engine and the schema registry it is asked with
NextCompletion ==
    \/ Return
    \/ \E s \in Schemas : RegisterSchema(s)
    \/ ClearSchema
    \/ \E p \in CustomProviders : RegisterProvider(p)
    \/ \E p \in CustomProviders : RemoveProvider(p)
    \/ \E partial \in PartialOptions : EngineSetOptions(partial)
    \/ \E sql \in CompletionTexts, engine \in CompletionEngines :
          \E position \in Positions(sql) : GetSuggestions(sql, position, engine)

\* new AutocompleteEngine(options): `{ ...DEFAULT_AUTOCOMPLETE_OPTIONS, ...options }`
InitCompletion ==
    /\ lastIndex = 0
    /\ embeddedVariables = FALSE
    /\ validators = <<>>
    /\ validationRules = <<>>
    /\ providers = DefaultProviders
    /\ options \in { partial @@ DEFAULT_AUTOCOMPLETE_OPTIONS : partial \in ConstructorOptions }
    /\ schema = EmptySchema
    /\ call = [op |-> "new"]
    /\ walk = NoWalk
    /\ debounced = NoDebounced
    /\ hook = NoHook

SpecCompletion == InitCompletion /\ [][NextCompletion]_vars

\* the codec alone, on every text of CodecTexts
NextCodec ==
    \/ Return
    \/ \E sql \in CodecTexts : HasVariables(sql)
    \/ \E sql \in CodecTexts : ExtractVariables(sql)
    \/ \E sql \in CodecTexts : EscapeVariables(sql)
    \/ RevertEscapedSql

SpecCodec == Init /\ [][NextCodec]_vars

\* the context detector alone, on every text of ContextTexts
NextContext ==
    \/ Return
    \/ /\ Idle
       /\ \E sql \in ContextTexts :
             \E position \in ContextPositions(sql) : DetectContext(sql, position, SampleRefs)

SpecContext == Init /\ [][NextContext]_vars

\* the schema registry alone
NextRegistry ==
    \/ Return
    \/ \E s \in RegistrySchemas : RegisterSchema(s)
    \/ ClearSchema
    \/ \E database \in LookupNames : GetDatabase(database)
    \/ \E tableName \in LookupNames, database \in LookupDatabases :
          GetTable(tableName, database)
    \/ \E tableName \in LookupNames, database \in LookupDatabases :
          GetColumns(tableName, database)
    \/ \E database \in LookupDatabases : GetAllTables(database)
    \/ \E query \in SearchQueries, searchOptions \in SearchOptions :
          Search(query, searchOptions)

SpecRegistry == Init /\ [][NextRegistry]_vars

\* extractTableRefs(ast): `if (!ast) return tables`, else the first call of
\* traverseAST
TraverseBegin(ast) ==
    IF ast.root = 0 THEN [NoWalk EXCEPT !.ast = ast]
    ELSE TraverseEnter([NoWalk EXCEPT !.ast = ast], ast.root)

\* the innermost call of traverseAST takes its next step
TraverseStep ==
    /\ walk.stack # <<>>
    /\ walk' = TraverseAdvance(walk)
    /\ UNCHANGED <<debounced, hook, lastIndex, embeddedVariables, validators,
                   validationRules, providers, options, schema, call>>

\* extractTableRefs is called with one of the ASTs
InitWalk ==
    /\ lastIndex = 0
    /\ embeddedVariables = FALSE
    /\ validators = <<>>
    /\ validationRules = <<>>
    /\ providers = DefaultProviders
    /\ options = DEFAULT_AUTOCOMPLETE_OPTIONS
    /\ schema = EmptySchema
    /\ call = [op |-> "new"]
    /\ walk \in { TraverseBegin(ast) : ast \in WalkAsts }
    /\ debounced = NoDebounced
    /\ hook = NoHook

\* the walk of extractTableRefs; the call is synchronous, so a walk that has
\* begun keeps taking steps
NextWalk == TraverseStep

SpecWalk == InitWalk /\ [][NextWalk]_vars /\ WF_vars(TraverseStep)

\* a function is made by debounce(func, wait) or by debounceAsync(func, wait)
InitDebounce ==
    /\ lastIndex = 0
    /\ embeddedVariables = FALSE
    /\ validators = <<>>
    /\ validationRules = <<>>
    /\ providers = DefaultProviders
    /\ options = DEFAULT_AUTOCOMPLETE_OPTIONS
    /\ schema = EmptySchema
    /\ call = [op |-> "new"]
    /\ walk = NoWalk
    /\ debounced \in { NewDebounced(kind, wait) :
                         kind \in {"debounce", "debounceAsync"}, wait \in Waits }
    /\ hook = NoHook

\* the debounced function is called. A timer that is due runs first: timers
\* are punctual
DebouncedCall(args) ==
    /\ Len(debounced.calls) < MaxCalls
    /\ debounced.now + debounced.wait <= MaxTime
    /\ DueTimers(debounced) = {}
    /\ debounced' = DebouncedCalled(debounced, args)
    /\ UNCHANGED <<walk, hook, lastIndex, embeddedVariables, validators,
                   validationRules, providers, options, schema, call>>

\* the runtime runs the callback of a timer that is due
TimerFires(throws) ==
    /\ \E t \in DueTimers(debounced) :
          debounced' = IF debounced.kind = "debounceAsync"
                       THEN DebounceAsyncTimer(debounced, t)
                       ELSE DebounceTimer(debounced, t, throws)
    /\ UNCHANGED <<walk, hook, lastIndex, embeddedVariables, validators,
                   validationRules, providers, options, schema, call>>

\* the promise that func returned settles
FuncSettles(state) ==
    /\ \E r \in debounced.running : debounced' = FuncSettled(debounced, r, state)
    /\ UNCHANGED <<walk, hook, lastIndex, embeddedVariables, validators,
                   validationRules, providers, options, schema, call>>

\* a millisecond passes, once the timers that are due have run
Tick ==
    /\ debounced.now < MaxTime
    /\ DueTimers(debounced) = {}
    /\ debounced' = [debounced EXCEPT !.now = @ + 1]
    /\ UNCHANGED <<walk, hook, lastIndex, embeddedVariables, validators,
                   validationRules, providers, options, schema, call>>

NextDebounce ==
    \/ \E args \in CallArgs : DebouncedCall(args)
    \/ \E throws \in BOOLEAN : TimerFires(throws)
    \/ \E state \in {"resolved", "rejected"} : FuncSettles(state)
    \/ Tick

\* time passes, the runtime runs the timers that are due, and the promise of
\* func settles
SpecDebounce ==
    /\ InitDebounce
    /\ [][NextDebounce]_vars
    /\ WF_vars(Tick)
    /\ WF_vars(\E throws \in BOOLEAN : TimerFires(throws))
    /\ WF_vars(\E state \in {"resolved", "rejected"} : FuncSettles(state))

\* Object.is(a, b) on two options: both undefined, or one and the same object
ObjectIs(a, b) == a.ref = b.ref

\* React runs an effect after the first render, and after a render in which
\* one of its dependencies is not the object it was at the render before
EffectRuns(h, before, now) == ~h.mounted \/ ~ObjectIs(before, now)

\* `if (option) { for (const x of option) { register(x) } }` as an effect with
\* the dependency [option]: what the service holds afterwards
RegisterEach(h, before, option, registered) ==
    IF EffectRuns(h, before, option) THEN registered \o option.value ELSE registered

\* `if (options.schema) { registerSchema(options.schema) }` as an effect with
\* the dependency [options.schema]
RegisterSchemaOption(h, option, registered) ==
    IF EffectRuns(h, h.deps.schema, option) /\ option.ref # 0
    THEN ReplaceSchema(registered, option.value)
    ELSE registered

\* the validating effect, with the dependencies [value, validationOptions]:
\* its cleanup clears the timer, and a value that is not empty sets one
\* (validateOnChange is true by default)
ValidateTimer(h, value) ==
    IF ~h.mounted \/ value # h.value THEN value # <<>> ELSE h.timer

\* what React keeps after a render with the options opts, the states being
\* value and errors
Rendered(h, opts, value, errors) ==
    [mounted |-> TRUE,
     deps    |-> [schema |-> opts.schema,
                  completionProviders |-> opts.completionProviders,
                  validators |-> opts.validators],
     value   |-> value,
     errors  |-> errors,
     timer   |-> ValidateTimer(h, value)]


\* the texts the editor holds, and the parser's answers to them
HookTexts == {<<>>, SimpleSelect}

HookEngines == { e \in ValidatorEngines : ~e.throws /\ e.errors = <<>> }

\* the options of a render: each of schema, completionProviders and
\* validators is undefined or one of two objects; two arrays may hold the
\* same providers or validators
ViewsProvider == CHOOSE p \in CustomProviders : p.id = "views"

WhereRequired == CHOOSE v \in ValidatorPlugins : v.name = "where-required"

OptionRefs == {1, 2}

HookOptions ==
    [initialValue : HookTexts,
     schema : {NoSchemaOption} \cup [ref : {1}, value : {AppSchema}],
     completionProviders : {NoOption} \cup [ref : OptionRefs, value : {<<ViewsProvider>>}],
     validators : {NoOption} \cup [ref : OptionRefs, value : {<<WhereRequired>>}]]

\* a render: useSQLEditor(opts) is called and its effects run, h being what
\* React kept
Render(h, opts, value, errors) ==
    /\ Len(providers) + Len(opts.completionProviders.value) <= MaxProviders
    /\ Len(validators) + Len(opts.validators.value) <= MaxValidators
    /\ hook' = Rendered(h, opts, value, errors)
    /\ schema' = RegisterSchemaOption(h, opts.schema, schema)
    /\ providers' = RegisterEach(h, h.deps.completionProviders,
                                 opts.completionProviders, providers)
    /\ validators' = RegisterEach(h, h.deps.validators, opts.validators, validators)

\* the component that uses the hook is rendered: the first time, when value
\* is initialValue, or because its parent was
UseSQLEditor(opts) ==
    /\ Idle
    /\ Render(hook, opts, IF hook.mounted THEN hook.value ELSE opts.initialValue,
              hook.errors)
    /\ call' = [op |-> "render"]
    /\ UNCHANGED <<walk, debounced, lastIndex, embeddedVariables, validationRules, options>>

\* onChange(newValue): setValue, and the render that React makes for it
HookOnChange(newValue, opts) ==
    /\ Idle
    /\ hook.mounted
    /\ newValue # hook.value
    /\ Render(hook, opts, newValue, hook.errors)
    /\ call' = [op |-> "onChange"]
    /\ UNCHANGED <<walk, debounced, lastIndex, embeddedVariables, validationRules, options>>

\* validate(), called by the component or by the timer of the validating
\* effect: validatorRef.current.validate(value, schemaRef.current), then
\* setErrors(result.errors) and the render that React makes for it
HookValidate(byTimer, engine, opts) ==
    /\ Idle
    /\ hook.mounted
    /\ byTimer => hook.timer
    /\ call' = ValidatorCall(hook.value, schema, engine, validators, validationRules,
                             parse(hook.value, lastIndex, FALSE, engine))
    /\ lastIndex' = call'.lastIndex
    /\ Render([hook EXCEPT !.timer = @ /\ ~byTimer], opts, hook.value,
              call'.result.errors)
    /\ UNCHANGED <<walk, debounced, embeddedVariables, validationRules, options>>

\* the component asks the engine that the hook returned
HookGetSuggestions(sql, position, engine) ==
    /\ hook.mounted
    /\ GetSuggestions(sql, position, engine)

\* between two renders an option keeps its content as long as it is the same
\* object
SameObjects(opts) ==
    /\ ObjectIs(opts.schema, hook.deps.schema) => opts.schema = hook.deps.schema
    /\ ObjectIs(opts.completionProviders, hook.deps.completionProviders)
          => opts.completionProviders = hook.deps.completionProviders
    /\ ObjectIs(opts.validators, hook.deps.validators)
          => opts.validators = hook.deps.validators

NextHook ==
    \/ Return
    \/ \E opts \in HookOptions : SameObjects(opts) /\ UseSQLEditor(opts)
    \/ \E opts \in HookOptions, newValue \in HookTexts :
          SameObjects(opts) /\ HookOnChange(newValue, opts)
    \/ \E opts \in HookOptions, engine \in HookEngines, byTimer \in BOOLEAN :
          SameObjects(opts) /\ HookValidate(byTimer, engine, opts)
    \/ \E engine \in CompletionEngines :
          HookGetSuggestions(PartialFrom, EndPosition(PartialFrom), engine)

SpecHook == Init /\ [][NextHook]_vars

(***************************************************************************)
(* Claims                                                                  *)
(***************************************************************************)
\* the text contains `$(`, one or more characters other than `)`, and `)`
ContainsVariable(s) == FindVariable(s, 1) # 0

\* C1: escapeVariables followed by revertEscapedSql with the map that
\* escapeVariables returned gives back exactly the original text.
C1_RoundTrip ==
    call.op = "revertEscapedSql" => call.result = call.sql

\* C2: hasVariables(text) is true exactly when the text contains a variable,
\* whatever calls were made before it.
C2_HasVariablesIsStateless ==
    call.op = "hasVariables" => (call.result <=> ContainsVariable(call.sql))

\* C3: with embedded variables enabled, a parse of a text that contains a
\* variable hands the engine the escaped text, with no variable left in it.
C3_ParseEscapesVariables ==
    (call.op = "parse" /\ call.embedded /\ ContainsVariable(call.sql))
        => /\ ~ContainsVariable(call.engineInput)
           /\ call.engineInput = escapeVariables(call.sql).escapedSql

C5_WithoutThrowing(vs) ==
    LET Keep(v) == ~v.throws
    IN  SelectSeq(vs, Keep)

\* C5: when a registered validator throws during validate, the exception is
\* caught and the other validators and the enabled rules still run: the
\* returned list holds the parse errors (typed syntax), the errors of every
\* validator that did not throw and the errors of the enabled rules; only the
\* results of the failing validator are missing.
C5_ThrowingValidatorIsIsolated ==
    (call.op = "validatorValidate" /\ \E k \in DOMAIN call.validators : call.validators[k].throws)
        => call.result.errors =
               validatorValidate(call.sql, call.schema, call.parseResult,
                                 C5_WithoutThrowing(call.validators),
                                 call.validationRules).errors

C7_OriginalColumn(line, column, escapedSql, variableMap) ==
    adjustColumnPosition(column, LineOr(SplitLines(escapedSql), line), variableMap)

\* C7: when parse escaped variables, every error location it returns is
\* 0-based and in the coordinates of the original text.
C7_ErrorsInOriginalCoordinates ==
    (call.op = "parse" /\ ~call.engine.throws /\ Len(call.variableMap) > 0)
        => \A i \in DOMAIN call.result.errors :
              "startLine" \in DOMAIN call.engine.errors[i]
              => LET reported == call.engine.errors[i]
                     line     == reported.startLine - 1
                     location == call.result.errors[i].location
                 IN  /\ location.start.line = line
                     /\ location.start.column =
                           C7_OriginalColumn(line, FieldOr(reported, "startColumn", 1) - 1,
                                             call.engineInput, call.variableMap)

\* C8: every ParseResult has success = true exactly when it has no error, and
\* validate returns the success of the parse.
C8_SuccessIffNoErrors ==
    /\ call.op \in {"parse", "validate"}
         => (call.result.success <=> Len(call.result.errors) = 0)
    /\ call.op = "validate" => call.returned = call.result.success

C8_Witness ==
    /\ call.op = "validate"
    /\ ~call.engine.throws
    /\ Len(call.result.errors) > 0
    /\ call.returned = FALSE

NoDuplicateRefs(tableRefs) ==
    \A i, j \in DOMAIN tableRefs :
        (tableRefs[i].name = tableRefs[j].name /\ tableRefs[i].alias = tableRefs[j].alias)
            => i = j

\* C9: no two entries of the tableRefs returned by parse have both the same
\* name and the same alias.
C9_TableRefsDeduplicated ==
    call.op = "parse" => NoDuplicateRefs(call.result.tableRefs)

\* C10: for SELECT ... FROM users [AS] u [INNER|LEFT|RIGHT] JOIN orders [AS] o
\* ON ..., parse returns (users, u) and (orders, o), and the aliases u and o
\* map to users and orders.
C10_JoinTablesAndAliases ==
    (call.op = "parse" /\ call.sql \in JoinStatements /\ ~call.engine.throws)
        => /\ HasRef(call.result.tableRefs, tUsers, aU)
           /\ HasRef(call.result.tableRefs, tOrders, aO)
           /\ aU \in DOMAIN call.result.aliases
           /\ aO \in DOMAIN call.result.aliases
           /\ call.result.aliases[aU].name = tUsers
           /\ call.result.aliases[aO].name = tOrders

\* the text before the cursor of the last detectContext call
TextBeforeCursor ==
    Substring(call.sql, 0, positionToOffset(call.sql, call.position))

\* the keyword occurs in text as a whole word, letter case ignored
KeywordFound(text, keyword) ==
    \E i \in 1..(Len(text) - Len(keyword) + 1) :
        /\ ToUpperCase(SubSeq(text, i, i + Len(keyword) - 1)) = keyword
        /\ i = 1 \/ ~IsWordChar(text[i - 1])
        /\ i + Len(keyword) > Len(text) \/ ~IsWordChar(text[i + Len(keyword)])

\* the clause keywords from the highest precedence to the lowest, each with
\* the context types it stands for (C12 says which of the two JOIN gives)
ClausePrecedence ==
    << [keyword |-> clHAVING,  types |-> {"having_clause"}],
       [keyword |-> clORDERBY, types |-> {"order_by"}],
       [keyword |-> clGROUPBY, types |-> {"group_by"}],
       [keyword |-> clWHERE,   types |-> {"where_clause"}],
       [keyword |-> clJOIN,    types |-> {"join_clause", "where_clause"}],
       [keyword |-> clFROM,    types |-> {"from_clause"}],
       [keyword |-> clSELECT,  types |-> {"select_list"}] >>

ClausesFound(text) ==
    { k \in DOMAIN ClausePrecedence : KeywordFound(text, ClausePrecedence[k].keyword) }

MoreOpenThanClosed(text) ==
    Cardinality({ i \in DOMAIN text : text[i] = "(" })
        > Cardinality({ i \in DOMAIN text : text[i] = ")" })

TypeByPrecedence(type, text, found) ==
    IF found # {} THEN type \in ClausePrecedence[Min(found)].types
    ELSE type = IF MoreOpenThanClosed(text) THEN "function" ELSE "unknown"

KeywordPositions(text, keyword) ==
    { i \in 1..(Len(text) - Len(keyword) + 1) :
        /\ ToUpperCase(SubSeq(text, i, i + Len(keyword) - 1)) = keyword
        /\ i = 1 \/ ~IsWordChar(text[i - 1])
        /\ i + Len(keyword) > Len(text) \/ ~IsWordChar(text[i + Len(keyword)]) }

\* JOIN is the highest-precedence clause keyword of text
JoinIsHighest(text) ==
    ClausesFound(text) # {} /\ ClausePrecedence[Min(ClausesFound(text))].keyword = clJOIN

\* the keyword ON follows the last JOIN of text
OnFollowsLastJoin(text) ==
    KeywordFound(SubSeq(text, Max(KeywordPositions(text, clJOIN)) + Len(clJOIN), Len(text)),
                 clON)

\* C12: when JOIN is the highest-precedence clause keyword before the cursor,
\* the context type is where_clause exactly when the keyword ON follows the
\* last JOIN, and join_clause otherwise: a table name or a partial table name
\* after JOIN, with no ON typed, is join_clause.
C12_JoinClauseUntilOn ==
    (call.op = "detectContext" /\ JoinIsHighest(TextBeforeCursor))
        => call.result.context.type =
              IF OnFollowsLastJoin(TextBeforeCursor) THEN "where_clause" ELSE "join_clause"

\* text ends with an identifier, the dot at position d, at most maxSpaces
\* white-space characters and a partial word that may be empty
DottedEnd(text, d, maxSpaces) ==
    /\ text[d] = "."
    /\ d > 1
    /\ IsWordChar(text[d - 1])
    /\ \E m \in (d + 1)..(Len(text) + 1) :
          /\ m - (d + 1) <= maxSpaces
          /\ \A k \in (d + 1)..(m - 1) : IsSpaceChar(text[k])
          /\ \A k \in m..Len(text) : IsWordChar(text[k])

\* the identifier that ends right before position d
IdentifierBefore(text, d) ==
    SubSeq(text, Min({ i \in 1..d : \A k \in i..(d - 1) : IsWordChar(text[k]) }), d - 1)

\* the partial word at the end of text
PartialWord(text) ==
    SubSeq(text, Min({ i \in 1..(Len(text) + 1) : \A k \in i..Len(text) : IsWordChar(text[k]) }),
           Len(text))

\* the tokens of a context with the dot at one of dots, or with no dot
DotTokens(context, text, dots) ==
    IF dots # {}
    THEN /\ context.afterDot
         /\ "dotPrefix" \in DOMAIN context
         /\ \A d \in dots : context.dotPrefix = IdentifierBefore(text, d)
         /\ context.currentToken = PartialWord(text)
         /\ "previousToken" \notin DOMAIN context
    ELSE /\ ~context.afterDot
         /\ "dotPrefix" \notin DOMAIN context

\* C13: afterDot is true exactly when the text before the cursor ends with an
\* identifier, a dot and an optional partial word; then dotPrefix is the
\* identifier, currentToken the partial word and previousToken is unset; in
\* every other case afterDot is false and dotPrefix is unset.
C13_AfterDotRightAfterIdentifier ==
    call.op = "detectContext"
        => DotTokens(call.result.context, TextBeforeCursor,
                     { d \in DOMAIN TextBeforeCursor : DottedEnd(TextBeforeCursor, d, 0) })

\* C13 as the code has it: white space may stand between the dot and the
\* partial word
C13_AfterDotAllowingSpace ==
    call.op = "detectContext"
        => DotTokens(call.result.context, TextBeforeCursor,
                     { d \in DOMAIN TextBeforeCursor :
                         DottedEnd(TextBeforeCursor, d, Len(TextBeforeCursor)) })

\* `SELECT u.na` with the cursor at its end
C13_Witness ==
    /\ call.op = "detectContext"
    /\ call.sql = kwSELECT \o Sp \o <<"u",".","n","a">>
    /\ call.position = EndPosition(call.sql)
    /\ call.result.context.afterDot
    /\ call.result.context.dotPrefix = aU
    /\ call.result.context.currentToken = <<"n","a">>
    /\ "previousToken" \notin DOMAIN call.result.context

\* the last getSuggestions call ran the default providers, enabled, with the
\* cursor right after `alias.`
RightAfterAliasDot ==
    /\ call.op = "getSuggestions"
    /\ call.providers = DefaultProviders
    /\ call.options.enabled
    /\ "context" \in DOMAIN call
    /\ call.context.afterDot
    /\ call.context.currentToken = <<>>
    /\ TextBeforeCursor # <<>>
    /\ TextBeforeCursor[Len(TextBeforeCursor)] = "."

\* the tables of the catalog that the statement's references give the alias
AliasedTables(alias, tableRefs, registry) ==
    { getTable(registry, tableRefs[i].name, <<>>).def :
        i \in { j \in DOMAIN tableRefs :
                  /\ tableRefs[j].alias = alias
                  /\ getTable(registry, tableRefs[j].name, <<>>).found } }

HasCompletion(result, type, label) ==
    \E k \in DOMAIN result : result[k].type = type /\ result[k].label = label

\* C14: with the cursor right after `alias.` and the alias mapped by the
\* statement's table references to a table of the catalog, getSuggestions
\* with the default providers returns a column completion for every column of
\* that table (as many as maxSuggestions admits) and no keyword completion.
C14_ColumnsAfterAliasDot ==
    RightAfterAliasDot
        => \A table \in AliasedTables(call.context.dotPrefix,
                                       call.context.availableTables, schema) :
              /\ Len(table.columns) <= call.options.maxSuggestions
                    => \A c \in DOMAIN table.columns :
                          HasCompletion(call.result, "column", table.columns[c].name)
              /\ \A k \in DOMAIN call.result : call.result[k].type # "keyword"

\* `SELECT u. FROM users u` at column 9 with users(id, name) registered
C14_Witness ==
    /\ RightAfterAliasDot
    /\ call.sql = DotSelect
    /\ AliasedTables(call.context.dotPrefix, call.context.availableTables, schema) # {}
    /\ Len(call.result) = 2
    /\ HasCompletion(call.result, "column", <<"n","a","m","e">>)

\* query is a subsequence of target from the positions i and j on
RECURSIVE IsSubsequenceFrom(_, _, _, _)
IsSubsequenceFrom(query, target, i, j) ==
    IF i > Len(query) THEN TRUE
    ELSE IF j > Len(target) THEN FALSE
    ELSE IF query[i] = target[j] THEN IsSubsequenceFrom(query, target, i + 1, j + 1)
    ELSE IsSubsequenceFrom(query, target, i, j + 1)

\* how target matches query: 4 exactly, 3 as a prefix, 2 as a substring, 1 as
\* a subsequence only, 0 not at all
MatchClassOf(query, target) ==
    IF query = target THEN 4
    ELSE IF Len(query) <= Len(target) /\ SubSeq(target, 1, Len(query)) = query THEN 3
    ELSE IF \E k \in 1..(Len(target) - Len(query) + 1) :
               SubSeq(target, k, k + Len(query) - 1) = query THEN 2
    ELSE IF IsSubsequenceFrom(query, target, 1, 1) THEN 1
    ELSE 0

MatchClass(query, completion, caseSensitive) ==
    IF caseSensitive THEN MatchClassOf(query, FilterTextOf(completion))
    ELSE MatchClassOf(ToLowerCase(query), ToLowerCase(FilterTextOf(completion)))

\* the last getSuggestions call ranked candidates by their fuzzy score
RankedByFuzzyScore ==
    /\ call.op = "getSuggestions"
    /\ call.options.enabled
    /\ call.options.fuzzyMatch
    /\ call.thrown = "none"
    /\ "context" \in DOMAIN call
    /\ call.context.currentToken # <<>>

\* result is ordered by score descending, then by sortPriority ascending
OrderedByScoreThenPriority(result) ==
    \A i, j \in DOMAIN result :
        i < j => \/ ScoreLess(result[j].score, result[i].score)
                 \/ /\ ScoreEqual(result[i].score, result[j].score)
                    /\ PriorityOf(result[i]) <= PriorityOf(result[j])

\* C15: with fuzzy matching enabled and a non-empty current token, the list
\* returned by getSuggestions holds only candidates that match the token and
\* is ordered by score descending, then by sortPriority ascending; so exact
\* matches come before prefix matches, these before substring matches, and
\* these before subsequence-only matches.
C15_FuzzyOrder ==
    RankedByFuzzyScore
        => /\ \A k \in DOMAIN call.result :
                 MatchClass(call.context.currentToken, call.result[k],
                            call.options.caseSensitive) > 0
           /\ OrderedByScoreThenPriority(call.result)
           /\ \A i, j \in DOMAIN call.result :
                 i < j => MatchClass(call.context.currentToken, call.result[i],
                                     call.options.caseSensitive)
                            >= MatchClass(call.context.currentToken, call.result[j],
                                          call.options.caseSensitive)

\* `in`: IN, then the keywords that start with IN, those that contain it,
\* and those that hold I and N apart
C15_Witness ==
    /\ RankedByFuzzyScore
    /\ call.sql = PartialIn
    /\ { MatchClass(call.context.currentToken, call.result[k], call.options.caseSensitive) :
            k \in DOMAIN call.result } = {1, 2, 3, 4}

\* the index of the first completion of result with the label, 0 when none
IndexOfLabel(result, label) ==
    IF \E k \in DOMAIN result : result[k].label = label
    THEN Min({ k \in DOMAIN result : result[k].label = label })
    ELSE 0

\* C16: for the candidates username and user_email of equal priority and the
\* query "use", username ranks at or before user_email, in whichever order
\* the catalog lists the two columns.
C16_ShorterMatchFirst ==
    (/\ RankedByFuzzyScore
     /\ call.context.currentToken = <<"u","s","e">>
     /\ IndexOfLabel(call.result, cUsername) # 0
     /\ IndexOfLabel(call.result, cUserEmail) # 0
     /\ PriorityOf(call.result[IndexOfLabel(call.result, cUsername)])
           = PriorityOf(call.result[IndexOfLabel(call.result, cUserEmail)]))
        => IndexOfLabel(call.result, cUsername) <= IndexOfLabel(call.result, cUserEmail)

\* C17: for every configuration of the engine, text, position and catalog,
\* getSuggestions returns at most maxSuggestions completions, however many
\* providers contribute.
C17_AtMostMaxSuggestions ==
    call.op = "getSuggestions" => Len(call.result) <= call.options.maxSuggestions

\* `in` with maxSuggestions 1 and a provider of the host beside the four of
\* the engine: one completion out of the many that match
C17_Witness ==
    /\ call.op = "getSuggestions"
    /\ call.sql = PartialIn
    /\ call.options.maxSuggestions = 1
    /\ Len(call.providers) > Len(DefaultProviders)
    /\ Len(call.result) = 1

\* C18: while options.enabled is false, set at construction or by a later
\* setOptions, getSuggestions returns the empty list for every text, position
\* and catalog, without parsing and without asking any provider.
C18_DisabledReturnsEmpty ==
    (call.op = "getSuggestions" /\ ~call.options.enabled)
        => /\ call.outcome = "returned"
           /\ call.result = <<>>
           /\ ~call.parsed
           /\ call.asked = 0

\* `in`, which has many completions, asked of a disabled engine with a
\* catalog registered
C18_Witness ==
    /\ call.op = "getSuggestions"
    /\ ~call.options.enabled
    /\ call.sql = PartialIn
    /\ schema # EmptySchema
    /\ call.result = <<>>
    /\ ~call.parsed

\* every lookup gives the same answer from the two catalogs
AnswersAlike(registry, catalog) ==
    /\ \A name \in LookupNames :
          getDatabase(registry, name) = getDatabase(catalog, name)
    /\ \A name \in LookupNames, database \in LookupDatabases :
          /\ getTable(registry, name, database) = getTable(catalog, name, database)
          /\ getColumns(registry, name, database) = getColumns(catalog, name, database)
    /\ \A database \in LookupDatabases :
          getAllTables(registry, database) = getAllTables(catalog, database)
    /\ \A query \in SearchQueries, searchOptions \in SearchOptions :
          search(registry, query, searchOptions) = search(catalog, query, searchOptions)

\* every lookup finds nothing
FindsNothing(registry) ==
    /\ \A name \in LookupNames : ~getDatabase(registry, name).found
    /\ \A name \in LookupNames, database \in LookupDatabases :
          /\ ~getTable(registry, name, database).found
          /\ getColumns(registry, name, database) = <<>>
    /\ \A database \in LookupDatabases : getAllTables(registry, database) = <<>>
    /\ \A query \in SearchQueries, searchOptions \in SearchOptions :
          search(registry, query, searchOptions) = <<>>

LookupOps == {"getDatabase", "getTable", "getColumns", "getAllTables", "search"}

ExactDatabases(registry, tableName) ==
    { d \in DOMAIN registry.databases :
        \E t \in DOMAIN registry.databases[d].tables :
            registry.databases[d].tables[t].name = tableName }

\* C20: lookups try the exact key first and the normalized key only
\* afterwards: getTable(name) with no database given returns the table whose
\* key is exactly name whenever some registered database has one, and a
\* table whose key differs from name in letter case only when no database
\* has the exact key.
C20_ExactKeyFirst ==
    (call.op = "getTable" /\ call.database = <<>>)
        => IF ExactDatabases(schema, call.tableName) # {}
           THEN call.result.found /\ call.result.def.name = call.tableName
           ELSE call.result.found
                   => ToLowerCase(call.result.def.name) = ToLowerCase(call.tableName)

\* error.type, "" for an error that carries none
TypeOf(error) == IF "type" \in DOMAIN error THEN error.type ELSE ""

\* the messages of the rules of the library that mention LIMIT
LimitMessages ==
    { "Consider using LIMIT with SELECT * to avoid performance issues",
      "Consider adding WHERE clause or LIMIT to avoid scanning entire table" }

\* the performance rule is in the rule list of the call, enabled
PerformanceRuleEnabled ==
    \E k \in DOMAIN call.validationRules :
        /\ call.validationRules[k].rule = PerformanceRule
        /\ RuleEnabled(call.validationRules[k])

\* C21: validate of a text that contains `SELECT *` and no `LIMIT`, with the
\* performance rule enabled, returns at least one error whose type is
\* custom, whose severity is warning and whose message mentions LIMIT.
C21_SelectStarWithoutLimitWarns ==
    ( /\ call.op = "validatorValidate"
      /\ Includes(call.sql, kwSELECT \o Sp \o colStar)
      /\ ~Includes(call.sql, <<"L","I","M","I","T">>)
      /\ PerformanceRuleEnabled )
        => \E i \in DOMAIN call.result.errors :
              /\ TypeOf(call.result.errors[i]) = "custom"
              /\ call.result.errors[i].severity = "warning"
              /\ call.result.errors[i].message \in LimitMessages

\* the names that follow a FROM in the text: FROM in any letter case, white
\* space, then the whole word
FromNames(sql) ==
    { SubSeq(sql, SpaceRunEnd(sql, i + 4), WordRunEnd(sql, SpaceRunEnd(sql, i + 4)) - 1) :
        i \in { j \in DOMAIN sql :
                  /\ HasLitAtI(sql, j, kwFROM)
                  /\ SpaceRunEnd(sql, j + 4) > j + 4
                  /\ WordRunEnd(sql, SpaceRunEnd(sql, j + 4)) > SpaceRunEnd(sql, j + 4) } }

\* the catalog has a table called name, in some database; the catalog does
\* not tell letter case apart
HasTableCalled(registry, name) ==
    \E d \in DOMAIN registry.databases :
        \E t \in DOMAIN registry.databases[d].tables :
            ToLowerCase(registry.databases[d].tables[t].name) = ToLowerCase(name)

\* the schema rule is in the rule list of the call, enabled
SchemaRuleEnabled ==
    \E k \in DOMAIN call.validationRules :
        /\ call.validationRules[k].rule = SchemaRule
        /\ RuleEnabled(call.validationRules[k])

\* the returned list has a semantic error about the table name
SemanticErrorFor(name) ==
    \E i \in DOMAIN call.result.errors :
        /\ TypeOf(call.result.errors[i]) = "semantic"
        /\ "table" \in DOMAIN call.result.errors[i]
        /\ call.result.errors[i].table = name

\* C22: validate with the schema rule enabled returns a semantic-type error
\* for a `FROM <name>` in the text exactly when the catalog has no table
\* called <name>: at least one such error for an absent table and none for a
\* table the catalog contains.
C22_SemanticErrorIffTableAbsent ==
    (call.op = "validatorValidate" /\ SchemaRuleEnabled)
        => \A name \in FromNames(call.sql) :
              SemanticErrorFor(name) <=> ~HasTableCalled(call.schema, name)

\* the last getSuggestions returned a completion that the provider p builds
ReturnsCompletionOf(p) ==
    /\ call.op = "getSuggestions"
    /\ \E i \in DOMAIN call.result : \E k \in DOMAIN p.completions :
          call.result[i].label = p.completions[k].label

\* C23: after any sequence of registerProvider and removeProvider calls that
\* ends with removeProvider(p), no later getSuggestions call returns a
\* completion produced by p. In three parts: right after removeProvider(p)
\* the engine does not hold p; an engine that does not hold p holds it again
\* only after registerProvider(p); and getSuggestions returns a completion of
\* p only when the engine holds p.
C23_RemovedProviderIsGone ==
    /\ [](call.op = "removeProvider" => call.provider \notin Range(providers))
    /\ [][\A p \in CustomProviders :
            (p \notin Range(providers) /\ p \in Range(providers'))
                => (call'.op = "registerProvider" /\ call'.provider = p)]_vars
    /\ [][\A p \in CustomProviders :
            ReturnsCompletionOf(p)' => p \in Range(providers)]_vars

\* the errors one rule configuration contributes to a call: none when it is
\* not enabled or its rule throws
C24_RuleErrors(ruleConfig, sql, registry) ==
    LET r == RuleValidate(ruleConfig.rule, sql, registry)
    IN  IF ~RuleEnabled(ruleConfig) \/ r.throws THEN <<>>
        ELSE [i \in DOMAIN r.errors |-> SetRuleType(r.errors[i])]

\* the three parts of the list, in the order of the claim
C24_ParsePart ==
    [i \in DOMAIN call.parseResult.errors |->
        [f \in DOMAIN call.parseResult.errors[i] \cup {"type"} |->
            IF f = "type" THEN "syntax" ELSE call.parseResult.errors[i][f]]]

C24_ValidatorPart ==
    Flatten([k \in DOMAIN call.validators |-> call.validators[k].errors])

C24_RulePart ==
    Flatten([k \in DOMAIN call.validationRules |->
                C24_RuleErrors(call.validationRules[k], call.sql, call.schema)])

\* C24: the error list returned by ValidatorService.validate is ordered:
\* first the parse errors, each with type syntax; then the errors of each
\* custom validator in registration order; then the errors of each enabled
\* rule in rule-list order; a rule that is not enabled contributes no error.
C24_ErrorsInOrder ==
    call.op = "validatorValidate"
        => call.result.errors = C24_ParsePart \o C24_ValidatorPart \o C24_RulePart

ErrorTypes == {"syntax", "semantic", "custom"}

\* C29: every error in the list returned by ValidatorService.validate has a
\* type of syntax, semantic or custom, whether it came from the parser, from
\* a custom validator or from a rule.
C29_EveryErrorTyped ==
    call.op = "validatorValidate"
        => \A i \in DOMAIN call.result.errors :
              TypeOf(call.result.errors[i]) \in ErrorTypes

\* the keys that lead back to a parent or to the parser's context
BackReferenceKeys == {"parent", "parentCtx", "invokingState", "_parent"}

\* a walk is going on: some call of traverseAST has not returned
Walking == walk.stack # <<>>

\* C27: table-reference extraction terminates on every AST, also one with
\* cyclic or shared nodes: a walk that has begun comes to its end, the walk
\* invokes its callback at most once for each distinct node, and it never
\* follows a property named parent, parentCtx, invokingState or _parent.
C27_WalkTerminates ==
    /\ Walking ~> ~Walking
    /\ [](\A i, j \in DOMAIN walk.calls : walk.calls[i] = walk.calls[j] => i = j)
    /\ [](walk.followed \cap BackReferenceKeys = {})

\* the walk of the array that holds one select twice has ended: the callback
\* saw the array and the select once each, and never the table that only
\* the parser context leads to
C27_Witness ==
    /\ walk.ast = SharedAst
    /\ ~Walking
    /\ walk.calls = <<1, 2>>
    /\ walk.followed = {"0", "1", "from"}

\* the clause keywords that may follow a table name
ClauseKeywords ==
    { kwWHERE, <<"G","R","O","U","P">>, <<"O","R","D","E","R">>, <<"L","I","M","I","T">>,
      kwJOIN, <<"L","E","F","T">>, <<"I","N","N","E","R">>, kwON }

IsClauseKeyword(word) == ToUpperCase(word) \in ClauseKeywords

\* the part of an insertText before its dot: the qualifier of the column
QualifierOf(insertText) ==
    IF IndexOfFrom(insertText, <<".">>, 1) = 0 THEN <<>>
    ELSE SubSeq(insertText, 1, IndexOfFrom(insertText, <<".">>, 1) - 1)

\* C28: a table named in FROM or JOIN with no alias is extracted with no
\* alias even when a clause keyword (WHERE, GROUP, ORDER, LIMIT, JOIN, LEFT,
\* INNER, ON) follows it: no table reference that getSuggestions works with
\* has a clause keyword as its alias, and no column completion has one as
\* the qualifier of its insertText.
C28_KeywordIsNeverAnAlias ==
    (call.op = "getSuggestions" /\ "context" \in DOMAIN call)
        => /\ \A k \in DOMAIN call.context.availableTables :
                 ~IsClauseKeyword(call.context.availableTables[k].alias)
           /\ \A i \in DOMAIN call.result :
                 "insertText" \in DOMAIN call.result[i]
                     => ~IsClauseKeyword(QualifierOf(call.result[i].insertText))

\* the n-th call was followed, less than wait ms later, by another call: it
\* is not the last call of its run
FollowedInRun(n) ==
    /\ n < Len(debounced.calls)
    /\ debounced.calls[n + 1].at - debounced.calls[n].at < debounced.wait

\* the invocations of func that the timer of the n-th call made
InvocationsOf(n) ==
    { v \in DOMAIN debounced.invocations : debounced.invocations[v].timer = n }

\* what has happened so far agrees with the claim: a call that is not the
\* last of its run causes no invocation, the last call of a run at most one
\* and, once a later run has begun, exactly one; every invocation has the
\* arguments of its call and comes wait ms after it or later
C25_RunsSoFar ==
    /\ \A n \in DOMAIN debounced.calls :
          /\ FollowedInRun(n) => InvocationsOf(n) = {}
          /\ Cardinality(InvocationsOf(n)) <= 1
          /\ (n < Len(debounced.calls) /\ ~FollowedInRun(n))
                => Cardinality(InvocationsOf(n)) = 1
    /\ \A v \in DOMAIN debounced.invocations :
          /\ debounced.invocations[v].args
                = debounced.calls[debounced.invocations[v].timer].args
          /\ debounced.invocations[v].at
                >= debounced.calls[debounced.invocations[v].timer].at + debounced.wait

RECURSIVE LastOfRun(_)
LastOfRun(n) == IF FollowedInRun(n) THEN LastOfRun(n + 1) ELSE n

\* the n-th promise has settled, and as the claim says: by the one
\* invocation that the run of its call caused, and as func's promise did
SettledByItsRun(n) ==
    LET by == debounced.promises[n].by
    IN  /\ by = debounced.calls[n].before + 1
        /\ InvocationsOf(LastOfRun(n)) = {by}
        /\ debounced.promises[n].state = debounced.invocations[by].outcome

Occurrences(xs, x) == Cardinality({ i \in DOMAIN xs : xs[i] = x })

\* every validator and provider of the options of the last render is held
\* once by its service
C30_HeldOnce ==
    /\ \A v \in Range(hook.deps.validators.value) : Occurrences(validators, v) = 1
    /\ \A p \in Range(hook.deps.completionProviders.value) :
          Occurrences(providers, p) = 1

\* the last validation run reports no error of a validator twice
C30_ErrorsOnce ==
    call.op = "validatorValidate"
        => \A v \in Range(call.validators) : \A k \in DOMAIN v.errors :
              Occurrences(call.result.errors, v.errors[k]) <= 1

\* the last getSuggestions returns no completion of a provider of the host
\* twice
C30_CompletionsOnce ==
    (call.op = "getSuggestions" /\ call.outcome = "returned")
        => \A p \in Range(call.providers) :
              p.kind = "custom"
                 => \A k \in DOMAIN p.completions :
                       Cardinality({ i \in DOMAIN call.result :
                                       call.result[i].label = p.completions[k].label }) <= 1

\* C30: in useSQLEditor, across any sequence of re-renders, each validator
\* in the current validators option and each provider in the current
\* completionProviders option is registered with its service exactly once:
\* re-rendering with a new array that holds the same validators or providers
\* does not make one validation run report a validator's errors twice, nor
\* one getSuggestions call return a provider's completions twice.
C30_RegisteredExactlyOnce ==
    hook.mounted => C30_HeldOnce /\ C30_ErrorsOnce /\ C30_CompletionsOnce

====
